---------------------------- MODULE Spec2Model ----------------------------
(***************************************************************************)
(* A model of the simulation core of src/vnp.js (Von Neumann Probes):      *)
(* toroidal geometry, the resource pool and its spatial grid, the probes,  *)
(* the K-closest selection and the Master AI state machine, driven by      *)
(* simStep.                                                                *)
(*                                                                         *)
(* Numbers.  The source computes in IEEE doubles; the model computes in    *)
(* integers on fixed lattices:                                             *)
(*   positions        world units                                          *)
(*   times            milliseconds   (0.02 s = 20, 22 s = 22000)           *)
(*   resource amounts 1/1000 unit    (0.001 = 1, cost 100 = 100000)        *)
(*   radii            1/100 unit     (PROBE_RADIUS 10 = 1000)              *)
(* Arrays are functions on 0..n-1, as in the source, so that index         *)
(* arithmetic ((left + right) >> 1, k - 1, activeIndex, -1 for "none")     *)
(* reads as it is written there.                                           *)
(***************************************************************************)
EXTENDS Integers, Sequences, FiniteSets, TLC

VARIABLES
    probes,                \* src: let probes = []
    resources,             \* src: let resources = []
    resourceActive,        \* src: let resourceActive = []
    resGrid,               \* src: let resGrid = []  (cell index -> array; empty cells left out)
    systemInitialTotal,    \* src: let systemInitialTotal
    systemRemainingTotal,  \* src: let systemRemainingTotal
    systemIndex,           \* src: let systemIndex
    master,                \* src: let master = {state, waypoint, t, sacrificed, toSacrifice, warpMachine}
    simAcc,                \* src: let simAcc = 0
    pc,                    \* position inside simStep: the phase that runs next
    hist,                  \* history: what the current rally cycle started from
    arg,                   \* arguments of a function applied on its own
    ret                    \* its result

vars == <<probes, resources, resourceActive, resGrid, systemInitialTotal,
          systemRemainingTotal, systemIndex, master, simAcc, pc, hist, arg, ret>>

simVars == <<probes, resources, resourceActive, resGrid, systemInitialTotal,
             systemRemainingTotal, systemIndex, master>>

-----------------------------------------------------------------------------
(* Program constants *)

WORLD_W == 24000
WORLD_H == 24000
PROBE_RADIUS == 1000
RESOURCE_BASE_R == 800
CHILD_START_RES == 12000
RALLY_RADIUS == 260
RALLY_RADIUS2 == RALLY_RADIUS * RALLY_RADIUS
RALLY_TIMEOUT == 22000
WARP_CHARGE_TIME == 5500
RADAR_RANGE == 1000
RADAR_RANGE2 == RADAR_RANGE * RADAR_RANGE
TOUCH_PAD == 600
RES_CELL == 700
FIXED_DT == 20

-----------------------------------------------------------------------------
(* Arrays on 0..n-1 *)

Len0(a) == Cardinality(DOMAIN a)

Empty0 == [i \in {} |-> 0]

Push0(a, e) == [i \in 0..Len0(a) |-> IF i < Len0(a) THEN a[i] ELSE e]

Pop0(a) == [i \in 0..(Len0(a) - 2) |-> a[i]]

Min2(a, b) == IF a <= b THEN a ELSE b

Max2(a, b) == IF a >= b THEN a ELSE b

\* JavaScript's %: the remainder has the sign of the dividend.
JsRem(a, b) == IF a >= 0 THEN a % b ELSE 0 - ((0 - a) % b)

-----------------------------------------------------------------------------
(* Toroidal geometry *)

\* wrap01Fast without the modulo of its second if.
wrap01Fast_NoModulo(v, size) ==
    IF v < 0 THEN v + size ELSE IF v >= size THEN v - size ELSE v

wrap01Fast(v, size) ==
    LET v1 == IF v < 0 THEN v + size
              ELSE IF v >= size THEN v - size
              ELSE v
        v2 == IF v1 < 0 \/ v1 >= size
              THEN LET m == JsRem(v1, size) IN IF m < 0 THEN m + size ELSE m
              ELSE v1
    IN v2

\* half = size * 0.5 is compared as 2 * d against size, exact for odd sizes too.
wrapDeltaFast(d, size) ==
    IF 2 * d > size THEN d - size
    ELSE IF 2 * d < 0 - size THEN d + size
    ELSE d

\* dx * dx + dy * dy of the wrapped delta from (ax, ay) to (bx, by).
WrappedD2(ax, ay, bx, by) ==
    LET dx == wrapDeltaFast(bx - ax, WORLD_W)
        dy == wrapDeltaFast(by - ay, WORLD_H)
    IN dx * dx + dy * dy

-----------------------------------------------------------------------------
(* K-closest selection (quickselect) *)

swap(arr, i, j) == [arr EXCEPT ![i] = arr[j], ![j] = arr[i]]

\* The for loop of partitionByD2, from index i on.
RECURSIVE PartitionLoop(_, _, _, _, _)
PartitionLoop(arr, i, right, storeIndex, pivotValue) ==
    IF i >= right THEN [arr |-> arr, storeIndex |-> storeIndex]
    ELSE IF arr[i]._d2tmp < pivotValue
         THEN PartitionLoop(swap(arr, storeIndex, i), i + 1, right, storeIndex + 1, pivotValue)
         ELSE PartitionLoop(arr, i + 1, right, storeIndex, pivotValue)

\* partitionByD2 that leaves the pivot at the right end.
partitionByD2_PivotLeftBehind(arr, left, right, pivotIndex) ==
    LET pivotValue == arr[pivotIndex]._d2tmp
        a1 == swap(arr, pivotIndex, right)
        lp == PartitionLoop(a1, left, right, left, pivotValue)
    IN [arr |-> lp.arr, storeIndex |-> lp.storeIndex]

partitionByD2(arr, left, right, pivotIndex) ==
    LET pivotValue == arr[pivotIndex]._d2tmp
        a1 == swap(arr, pivotIndex, right)
        lp == PartitionLoop(a1, left, right, left, pivotValue)
    IN [arr |-> swap(lp.arr, right, lp.storeIndex), storeIndex |-> lp.storeIndex]

\* The while (true) loop of selectKClosestInPlace; iters counts its partitions.
RECURSIVE SelectLoop(_, _, _, _, _)
SelectLoop(arr, k, left, right, iters) ==
    IF left >= right THEN [arr |-> arr, iters |-> iters]
    ELSE LET pt == partitionByD2(arr, left, right, (left + right) \div 2)
             pivotIndex == pt.storeIndex
         IN IF k - 1 = pivotIndex THEN [arr |-> pt.arr, iters |-> iters + 1]
            ELSE IF k - 1 < pivotIndex
                 THEN SelectLoop(pt.arr, k, left, pivotIndex - 1, iters + 1)
                 ELSE SelectLoop(pt.arr, k, pivotIndex + 1, right, iters + 1)

\* arr: candidates [ref, x, y, _d2tmp]; the result holds the reordered array.
selectKClosestInPlace(arr, k, wp) ==
    LET cached == [i \in DOMAIN arr |->
                     [arr[i] EXCEPT !._d2tmp =
                        LET dx == wrapDeltaFast(arr[i].x - wp.x, WORLD_W)
                            dy == wrapDeltaFast(arr[i].y - wp.y, WORLD_H)
                        IN dx * dx + dy * dy]]
    IN SelectLoop(cached, k, 0, Len0(arr) - 1, 0)

-----------------------------------------------------------------------------
(* The world as one value.  The operations below take a world w, a record  *)
(* of the simulation's global variables, and return the world they leave.  *)

World == [probes |-> probes, resources |-> resources, resourceActive |-> resourceActive,
          resGrid |-> resGrid, systemInitialTotal |-> systemInitialTotal,
          systemRemainingTotal |-> systemRemainingTotal, systemIndex |-> systemIndex,
          master |-> master]

\* let simAcc = 0.  The accumulator is a double; the model keeps the millisecond
\* it stands at (ms) and on which side of that millisecond's double the rounding
\* of earlier additions and subtractions has left it (e: -1 below, 0 on it,
\* 1 above).
AccZero == [ms |-> 0, e |-> 0]

\* null for a waypoint {x, y}: positions are never negative.
NullWp == [x |-> 0 - 1, y |-> 0 - 1]

\* null for master.warpMachine.
NullMachine == [x |-> 0 - 1, y |-> 0 - 1, mode |-> "null"]

-----------------------------------------------------------------------------
(* Spatial grid *)

\* initResGrid: ceil(WORLD.w / RES_CELL), ceil(WORLD.h / RES_CELL)
resGridW == (WORLD_W + RES_CELL - 1) \div RES_CELL

resGridH == (WORLD_H + RES_CELL - 1) \div RES_CELL

cellIndexForPos(x, y) ==
    LET cx0 == x \div RES_CELL
        cy0 == y \div RES_CELL
        cx == IF cx0 >= resGridW THEN resGridW - 1 ELSE cx0
        cy == IF cy0 >= resGridH THEN resGridH - 1 ELSE cy0
    IN cx + cy * resGridW

\* resGrid[ci]; the model stores only the cells that hold something.
Cell(grid, ci) == IF ci \in DOMAIN grid THEN grid[ci] ELSE Empty0

SetCell(grid, ci, cell) ==
    IF Len0(cell) = 0
    THEN [c \in (DOMAIN grid) \ {ci} |-> grid[c]]
    ELSE [c \in (DOMAIN grid) \cup {ci} |-> IF c = ci THEN cell ELSE grid[c]]

gridAddResource(w, idx) ==
    LET r == w.resources[idx]
        ci == cellIndexForPos(r.x, r.y)
        cell == Cell(w.resGrid, ci)
    IN [w EXCEPT !.resources[idx]._gridCell = ci,
                 !.resources[idx]._gridIndex = Len0(cell),
                 !.resGrid = SetCell(w.resGrid, ci, Push0(cell, idx))]

\* gridRemoveResource that does not set the moved resource's _gridIndex.
gridRemoveResource_StaleBackref(w, idx) ==
    LET r == w.resources[idx]
        ci == r._gridCell
        gi == r._gridIndex
    IN IF ci < 0 \/ gi < 0 THEN w
       ELSE LET cell == Cell(w.resGrid, ci)
                last == Len0(cell) - 1
                lastIdx == cell[last]
                cell1 == [cell EXCEPT ![gi] = lastIdx]
                res2 == [w.resources EXCEPT ![idx]._gridCell = 0 - 1, ![idx]._gridIndex = 0 - 1]
            IN [w EXCEPT !.resources = res2,
                         !.resGrid = SetCell(w.resGrid, ci, Pop0(cell1))]

gridRemoveResource(w, idx) ==
    LET r == w.resources[idx]
        ci == r._gridCell
        gi == r._gridIndex
    IN IF ci < 0 \/ gi < 0 THEN w
       ELSE LET cell == Cell(w.resGrid, ci)
                last == Len0(cell) - 1
                lastIdx == cell[last]
                cell1 == [cell EXCEPT ![gi] = lastIdx]
                res1 == [w.resources EXCEPT ![lastIdx]._gridIndex = gi]
                res2 == [res1 EXCEPT ![idx]._gridCell = 0 - 1, ![idx]._gridIndex = 0 - 1]
            IN [w EXCEPT !.resources = res2,
                         !.resGrid = SetCell(w.resGrid, ci, Pop0(cell1))]

mod(n, m) == LET r == JsRem(n, m) IN IF r < 0 THEN r + m ELSE r

\* ceil(RADAR_RANGE / RES_CELL) + 1
RadarR == ((RADAR_RANGE + RES_CELL - 1) \div RES_CELL) + 1

\* buildNeighborLists: the cells pushed for cell ci with ring R, in push order.
NeighborCells(ci, R) ==
    LET cx == ci % resGridW
        cy == ci \div resGridW
        side == 2 * R + 1
    IN [n \in 0..(side * side - 1) |->
          LET oy == (n \div side) - R
              ox == (n % side) - R
          IN mod(cx + ox, resGridW) + mod(cy + oy, resGridH) * resGridW]

\* The radar neighbours without the extra ring of cells.
radarCellNeighbors_NoExtraRing(ci) == NeighborCells(ci, RadarR - 1)

radarCellNeighbors(ci) == NeighborCells(ci, RadarR)

\* The harvest neighbours reduced to the probe's own cell.
harvestCellNeighbors_OwnCellOnly(ci) == NeighborCells(ci, 0)

harvestCellNeighbors(ci) == NeighborCells(ci, 1)

-----------------------------------------------------------------------------
(* Resource pool *)

\* makeResource: spec = [kind, x, y, maxAmt, radius] holds what the source draws at
\* random and the radius RESOURCE_BASE_R + sqrt(maxAmt) * (0.52 or 0.62) it derives.
makeResource(spec) ==
    [kind |-> spec.kind, x |-> spec.x, y |-> spec.y, amt |-> spec.maxAmt,
     maxAmt |-> spec.maxAmt, radius |-> spec.radius, active |-> FALSE,
     activeIndex |-> 0 - 1, _gridCell |-> 0 - 1, _gridIndex |-> 0 - 1]

activateResource(w, idx) ==
    LET w1 == [w EXCEPT !.resources[idx].active = TRUE,
                        !.resources[idx].activeIndex = Len0(w.resourceActive),
                        !.resourceActive = Push0(w.resourceActive, idx)]
    IN gridAddResource(w1, idx)

\* deactivateResource that does not tell the resource moved into the freed
\* slot its new place.
deactivateResource_StaleActiveIndex(w, idx) ==
    IF ~w.resources[idx].active THEN w
    ELSE LET w1 == gridRemoveResource(w, idx)
             ai == w1.resources[idx].activeIndex
             last == Len0(w1.resourceActive) - 1
             lastIdx == w1.resourceActive[last]
             ra1 == [w1.resourceActive EXCEPT ![ai] = lastIdx]
             res2 == [w1.resources EXCEPT ![idx].active = FALSE, ![idx].activeIndex = 0 - 1]
         IN [w1 EXCEPT !.resources = res2, !.resourceActive = Pop0(ra1)]

deactivateResource(w, idx) ==
    IF ~w.resources[idx].active THEN w
    ELSE LET w1 == gridRemoveResource(w, idx)
             ai == w1.resources[idx].activeIndex
             last == Len0(w1.resourceActive) - 1
             lastIdx == w1.resourceActive[last]
             ra1 == [w1.resourceActive EXCEPT ![ai] = lastIdx]
             res1 == [w1.resources EXCEPT ![lastIdx].activeIndex = ai]
             res2 == [res1 EXCEPT ![idx].active = FALSE, ![idx].activeIndex = 0 - 1]
         IN [w1 EXCEPT !.resources = res2, !.resourceActive = Pop0(ra1)]

\* The two creation loops of spawnSystem, over the resources drawn (layout).
RECURSIVE SpawnLoop(_, _, _)
SpawnLoop(w, layout, i) ==
    IF i >= Len0(layout) THEN w
    ELSE LET r == makeResource(layout[i])
             idx == Len0(w.resources)
             w1 == [w EXCEPT !.resources = Push0(w.resources, r)]
             w2 == activateResource(w1, idx)
             w3 == [w2 EXCEPT !.systemInitialTotal = w2.systemInitialTotal + r.maxAmt]
         IN SpawnLoop(w3, layout, i + 1)

spawnSystem(w, layout) ==
    LET w0 == [w EXCEPT !.resources = Empty0, !.resourceActive = Empty0,
                        !.systemInitialTotal = 0, !.systemRemainingTotal = 0,
                        !.resGrid = Empty0]
        w1 == SpawnLoop(w0, layout, 0)
    IN [w1 EXCEPT !.systemRemainingTotal = w1.systemInitialTotal]

-----------------------------------------------------------------------------
(* Probe *)

\* new Probe(x, y, isPlayer, dna): carried is what the constructor draws for
\* this.resources (0 for the player), radar and wander its two cooldown draws.
Probe(x, y, isPlayer, h, carried, radar, wander) ==
    [isPlayer |-> isPlayer, x |-> x, y |-> y,
     resources |-> IF isPlayer THEN 0 ELSE carried,
     harvest |-> h, target |-> 0 - 1,
     radarCooldown |-> radar, wanderT |-> wander, replCooldown |-> 0,
     waypoint |-> NullWp, sacrificing |-> FALSE, sacrificeT |-> 0, dead |-> FALSE]

\* Infinity, as the initial bestD2 of a scan: above every squared distance.
Infinity == 2000000000

\* touch * touch for resource r, in squared world units (radii are in 1/100).
Touch2(r) ==
    LET touch == PROBE_RADIUS + r.radius + TOUCH_PAD
    IN (touch * touch) \div 10000

\* The two nested scan loops shared by radarPing (mode "radar") and harvest
\* (mode "touch"): cells neigh[n..], slots k.. of the current cell.
RECURSIVE ScanLoop(_, _, _, _, _, _, _, _)
ScanLoop(w, px, py, neigh, n, k, best, mode) ==
    IF n >= Len0(neigh) THEN best
    ELSE LET cell == Cell(w.resGrid, neigh[n])
         IN IF k >= Len0(cell) THEN ScanLoop(w, px, py, neigh, n + 1, 0, best, mode)
            ELSE LET ridx == cell[k]
                     r == w.resources[ridx]
                 IN IF r.amt <= 1 THEN ScanLoop(w, px, py, neigh, n, k + 1, best, mode)
                    ELSE LET d2 == WrappedD2(px, py, r.x, r.y)
                             lim == IF mode = "radar" THEN RADAR_RANGE2 ELSE Touch2(r)
                             nb == IF d2 <= lim /\ d2 < best.d2
                                   THEN [idx |-> ridx, d2 |-> d2] ELSE best
                         IN ScanLoop(w, px, py, neigh, n, k + 1, nb, mode)

radarPing(w, i) ==
    LET p == w.probes[i]
    IN IF Len0(w.resourceActive) <= 0 THEN 0 - 1
       ELSE ScanLoop(w, p.x, p.y, radarCellNeighbors(cellIndexForPos(p.x, p.y)),
                     0, 0, [idx |-> 0 - 1, d2 |-> Infinity], "radar").idx

\* aiControl that does not look at the master.
aiControl_NoOverride(w, i, dt, rnd) ==
    LET p0 == w.probes[i]
        p == [p0 EXCEPT !.replCooldown = Max2(0, p0.replCooldown - dt)]
        hasLive == p.target >= 0 /\ p.target \in DOMAIN w.resources
                   /\ w.resources[p.target].amt > 1
    IN IF hasLive
       THEN LET r == w.resources[p.target]
                d2 == WrappedD2(p.x, p.y, r.x, r.y)
            IN [w EXCEPT !.probes[i] =
                  IF d2 > (RADAR_RANGE2 * 32) \div 10 THEN [p EXCEPT !.target = 0 - 1] ELSE p]
       ELSE LET p1 == [p EXCEPT !.target = 0 - 1,
                                !.radarCooldown = p.radarCooldown - dt,
                                !.wanderT = Max2(0, p.wanderT - dt)]
            IN IF p1.radarCooldown <= 0
               THEN LET foundIdx == radarPing([w EXCEPT !.probes[i] = p1], i)
                    IN IF foundIdx >= 0
                       THEN [w EXCEPT !.probes[i] =
                               [p1 EXCEPT !.target = foundIdx, !.radarCooldown = rnd.radar]]
                       ELSE [w EXCEPT !.probes[i] =
                               [p1 EXCEPT !.wanderT = rnd.wander,
                                          !.radarCooldown = rnd.wander + rnd.radar]]
               ELSE [w EXCEPT !.probes[i] = p1]

\* aiControl, without the steering (velocity is not modelled).  rnd holds the
\* draws of rand(): radar (RADAR_COOLDOWN_MIN..MAX) and wander (WANDER_MIN..MAX).
aiControl(w, i, dt, rnd) ==
    LET p0 == w.probes[i]
        p == [p0 EXCEPT !.replCooldown = Max2(0, p0.replCooldown - dt)]
        masterActive == w.master.state # "NORMAL" /\ w.master.waypoint # NullWp
        hasLive == p.target >= 0 /\ p.target \in DOMAIN w.resources
                   /\ w.resources[p.target].amt > 1
    IN IF masterActive
       THEN [w EXCEPT !.probes[i] = [p EXCEPT !.waypoint = w.master.waypoint]]
       ELSE IF hasLive
       THEN LET r == w.resources[p.target]
                d2 == WrappedD2(p.x, p.y, r.x, r.y)
            IN [w EXCEPT !.probes[i] =
                  IF d2 > (RADAR_RANGE2 * 32) \div 10 THEN [p EXCEPT !.target = 0 - 1] ELSE p]
       ELSE LET p1 == [p EXCEPT !.target = 0 - 1,
                                !.radarCooldown = p.radarCooldown - dt,
                                !.wanderT = Max2(0, p.wanderT - dt)]
            IN IF p1.radarCooldown <= 0
               THEN LET foundIdx == radarPing([w EXCEPT !.probes[i] = p1], i)
                    IN IF foundIdx >= 0
                       THEN [w EXCEPT !.probes[i] =
                               [p1 EXCEPT !.target = foundIdx, !.radarCooldown = rnd.radar]]
                       ELSE [w EXCEPT !.probes[i] =
                               [p1 EXCEPT !.wanderT = rnd.wander,
                                          !.radarCooldown = rnd.wander + rnd.radar]]
               ELSE [w EXCEPT !.probes[i] = p1]

\* sacrificeBehavior that does not run the countdown.
sacrificeBehavior_Frozen(w, i, dt) ==
    LET t == w.probes[i].sacrificeT
    IN [w EXCEPT !.probes[i].sacrificeT = t,
                 !.probes[i].dead = IF t <= 0 THEN TRUE ELSE @]

sacrificeBehavior(w, i, dt) ==
    LET t == w.probes[i].sacrificeT - dt
    IN [w EXCEPT !.probes[i].sacrificeT = t,
                 !.probes[i].dead = IF t <= 0 THEN TRUE ELSE @]

\* Probe.update.  to is where integrating the velocity and wrapping leaves the
\* probe; playerControl changes the velocity only, so it has no step of its own.
update(w, i, dt, to, rnd) ==
    LET p == w.probes[i]
    IN IF p.dead \/ dt <= 0 THEN w
       ELSE LET w1 == IF p.sacrificing THEN sacrificeBehavior(w, i, dt)
                      ELSE IF p.isPlayer THEN w
                      ELSE aiControl(w, i, dt, rnd)
            IN [w1 EXCEPT !.probes[i].x = wrap01Fast(to.x, WORLD_W),
                          !.probes[i].y = wrap01Fast(to.y, WORLD_H)]

\* Probe._harvestFrom.  dna.harvest is in units per second, dt in ms: their
\* product is in 1/1000 unit.
_harvestFrom(w, i, ridx, dt) ==
    LET r == w.resources[ridx]
        p == w.probes[i]
    IN IF r.amt <= 1 THEN w
       ELSE LET take == Min2(r.amt, p.harvest * dt)
                w1 == [w EXCEPT !.resources[ridx].amt = r.amt - take,
                                !.probes[i].resources = p.resources + take,
                                !.systemRemainingTotal = Max2(0, w.systemRemainingTotal - take)]
            IN IF w1.resources[ridx].amt <= 1
               THEN LET w2 == deactivateResource([w1 EXCEPT !.resources[ridx].amt = 0], ridx)
                    IN IF p.target = ridx THEN [w2 EXCEPT !.probes[i].target = 0 - 1] ELSE w2
               ELSE w1

\* Probe.harvest that forgets to drop a target that is depleted.
harvest_KeepsStaleTarget(w, i, dt) ==
    LET p == w.probes[i]
        live == p.target >= 0 /\ p.target \in DOMAIN w.resources
                /\ w.resources[p.target].amt > 1
        touching == live /\ WrappedD2(p.x, p.y, w.resources[p.target].x, w.resources[p.target].y)
                              <= Touch2(w.resources[p.target])
    IN IF p.dead \/ dt <= 0 THEN w
       ELSE IF Len0(w.resourceActive) <= 0 THEN w
       ELSE IF touching THEN _harvestFrom(w, i, p.target, dt)
       ELSE LET best == ScanLoop(w, p.x, p.y, harvestCellNeighbors(cellIndexForPos(p.x, p.y)),
                                 0, 0, [idx |-> 0 - 1, d2 |-> Infinity], "touch").idx
            IN IF best >= 0 THEN _harvestFrom(w, i, best, dt) ELSE w

\* Probe.harvest
harvest(w, i, dt) ==
    LET p == w.probes[i]
        live == p.target >= 0 /\ p.target \in DOMAIN w.resources
                /\ w.resources[p.target].amt > 1
        touching == live /\ WrappedD2(p.x, p.y, w.resources[p.target].x, w.resources[p.target].y)
                              <= Touch2(w.resources[p.target])
    IN IF p.dead \/ dt <= 0 THEN w
       ELSE IF Len0(w.resourceActive) <= 0 THEN w
       ELSE IF touching THEN _harvestFrom(w, i, p.target, dt)
       ELSE LET w1 == IF p.target >= 0 /\ ~live
                      THEN [w EXCEPT !.probes[i].target = 0 - 1] ELSE w
                best == ScanLoop(w1, p.x, p.y, harvestCellNeighbors(cellIndexForPos(p.x, p.y)),
                                 0, 0, [idx |-> 0 - 1, d2 |-> Infinity], "touch").idx
            IN IF best >= 0 THEN _harvestFrom(w1, i, best, dt) ELSE w1

replicateCost == 100000

HARD_PROBE_CAP == 1000000

constrain(v, lo, hi) == IF v < lo THEN lo ELSE IF v > hi THEN hi ELSE v

\* mutateDNA, for dna.harvest: pct is rand(0.95, 1.06) in percent.
mutateDNA(h, pct) == constrain((h * pct) \div 100, 8, 40)

\* Probe.replicate that takes the child's starting balance from the parent.
replicateCapped_ChargesChildBalance(w, i, cost, rnd, cap) ==
    LET p == w.probes[i]
    IN IF Len0(w.probes) >= cap THEN w
       ELSE IF p.resources < cost THEN w
       ELSE IF w.master.state # "NORMAL" THEN w
       ELSE LET cx == wrap01Fast(p.x + rnd.off.x, WORLD_W)
                cy == wrap01Fast(p.y + rnd.off.y, WORLD_H)
                child == [Probe(cx, cy, FALSE, mutateDNA(p.harvest, rnd.mut), 0, rnd.radar, rnd.wander)
                            EXCEPT !.resources = CHILD_START_RES]
            IN [w EXCEPT !.probes = Push0([w.probes EXCEPT ![i].resources = p.resources - CHILD_START_RES],
                                          child)]

\* Probe.replicate with the population cap it compares probes.length with as a
\* parameter.  rnd: the child's offset from the parent (off), the draws of its
\* constructor (radar, wander) and the factor of mutateDNA (mut).
replicateCapped(w, i, cost, rnd, cap) ==
    LET p == w.probes[i]
    IN IF Len0(w.probes) >= cap THEN w
       ELSE IF p.resources < cost THEN w
       ELSE IF w.master.state # "NORMAL" THEN w
       ELSE LET cx == wrap01Fast(p.x + rnd.off.x, WORLD_W)
                cy == wrap01Fast(p.y + rnd.off.y, WORLD_H)
                child == [Probe(cx, cy, FALSE, mutateDNA(p.harvest, rnd.mut), 0, rnd.radar, rnd.wander)
                            EXCEPT !.resources = CHILD_START_RES]
            IN [w EXCEPT !.probes = Push0([w.probes EXCEPT ![i].resources = p.resources - cost],
                                          child)]

\* Probe.replicate: the cap is HARD_PROBE_CAP.
replicate(w, i, cost, rnd) == replicateCapped(w, i, cost, rnd, HARD_PROBE_CAP)

\* Probe.tryAutoReplicate that leaves the population test to replicate.
tryAutoReplicateCapped_CapInReplicate(w, i, dt, rnd, cap) ==
    LET p == w.probes[i]
        cost == replicateCost
    IN IF p.dead \/ p.isPlayer THEN w
       ELSE IF dt <= 0 THEN w
       ELSE IF w.master.state # "NORMAL" THEN w
       ELSE IF p.replCooldown > 0 THEN w
       ELSE IF p.resources * 25 >= cost * 27
            THEN [replicateCapped(w, i, cost, rnd, cap) EXCEPT !.probes[i].replCooldown = rnd.cooldown]
            ELSE w

\* Probe.tryAutoReplicate with the cap as a parameter.  cost * 1.08 is compared
\* as 25 * resources >= 27 * cost.
tryAutoReplicateCapped(w, i, dt, rnd, cap) ==
    LET p == w.probes[i]
        cost == replicateCost
    IN IF p.dead \/ p.isPlayer THEN w
       ELSE IF dt <= 0 THEN w
       ELSE IF Len0(w.probes) >= cap THEN w
       ELSE IF w.master.state # "NORMAL" THEN w
       ELSE IF p.replCooldown > 0 THEN w
       ELSE IF p.resources * 25 >= cost * 27
            THEN [replicateCapped(w, i, cost, rnd, cap) EXCEPT !.probes[i].replCooldown = rnd.cooldown]
            ELSE w

\* Probe.tryAutoReplicate that does not leave the player out.
tryAutoReplicate_PlayerToo(w, i, dt, rnd) ==
    LET p == w.probes[i]
        cost == replicateCost
    IN IF p.dead THEN w
       ELSE IF dt <= 0 THEN w
       ELSE IF Len0(w.probes) >= HARD_PROBE_CAP THEN w
       ELSE IF w.master.state # "NORMAL" THEN w
       ELSE IF p.replCooldown > 0 THEN w
       ELSE IF p.resources * 25 >= cost * 27
            THEN [replicate(w, i, cost, rnd) EXCEPT !.probes[i].replCooldown = rnd.cooldown]
            ELSE w

\* Probe.tryAutoReplicate that asks for the cost only, without the margin.
tryAutoReplicate_NoMargin(w, i, dt, rnd) ==
    LET p == w.probes[i]
        cost == replicateCost
    IN IF p.dead \/ p.isPlayer THEN w
       ELSE IF dt <= 0 THEN w
       ELSE IF Len0(w.probes) >= HARD_PROBE_CAP THEN w
       ELSE IF w.master.state # "NORMAL" THEN w
       ELSE IF p.replCooldown > 0 THEN w
       ELSE IF p.resources >= cost
            THEN [replicate(w, i, cost, rnd) EXCEPT !.probes[i].replCooldown = rnd.cooldown]
            ELSE w

\* Probe.tryAutoReplicate: the cap is HARD_PROBE_CAP.
tryAutoReplicate(w, i, dt, rnd) == tryAutoReplicateCapped(w, i, dt, rnd, HARD_PROBE_CAP)

\* Probe.beginSacrifice
beginSacrifice(w, i, wp, t) ==
    IF w.probes[i].isPlayer THEN w
    ELSE [w EXCEPT !.probes[i].sacrificing = TRUE, !.probes[i].sacrificeT = t,
                   !.probes[i].waypoint = wp, !.probes[i].target = 0 - 1]

-----------------------------------------------------------------------------
(* Master AI *)

\* master.t += dt.  The timer is read only by t >= RALLY_TIMEOUT and
\* t >= WARP_CHARGE_TIME (the smaller of the two), so every value past
\* RALLY_TIMEOUT is kept as RALLY_TIMEOUT: a stalled RALLY stays finite.
AdvanceT(t, dt) == Min2(t + dt, RALLY_TIMEOUT)

\* countArrivedAtWaypointSq that passes over the player.
countArrivedAtWaypointSq_SkipsPlayer(w, radiusSq) ==
    IF w.master.waypoint = NullWp THEN 0
    ELSE Cardinality({i \in DOMAIN w.probes :
            /\ ~w.probes[i].dead
            /\ ~w.probes[i].isPlayer
            /\ WrappedD2(w.probes[i].x, w.probes[i].y,
                         w.master.waypoint.x, w.master.waypoint.y) <= radiusSq})

countArrivedAtWaypointSq(w, radiusSq) ==
    IF w.master.waypoint = NullWp THEN 0
    ELSE Cardinality({i \in DOMAIN w.probes :
            /\ ~w.probes[i].dead
            /\ WrappedD2(w.probes[i].x, w.probes[i].y,
                         w.master.waypoint.x, w.master.waypoint.y) <= radiusSq})

\* startRally; wp is the waypoint drawn.
startRally(w, wp) ==
    [w EXCEPT !.master = [state |-> "RALLY", waypoint |-> wp, t |-> 0, sacrificed |-> 0,
                          toSacrifice |-> 0, warpMachine |-> NullMachine],
              !.probes = [i \in DOMAIN w.probes |-> [w.probes[i] EXCEPT !.waypoint = wp]]]

\* The ai array of startBuild: the probes that are neither the player nor dead,
\* in collection order, each with a reference (ref) to its probe.
RECURSIVE AiLoop(_, _, _)

\* The ai array when the loop does not leave the player out.
RECURSIVE AiLoop_WithPlayer(_, _, _)
AiLoop_WithPlayer(w, i, ai) ==
    IF i >= Len0(w.probes) THEN ai
    ELSE LET p == w.probes[i]
         IN IF ~p.dead
            THEN AiLoop_WithPlayer(w, i + 1, Push0(ai, [ref |-> i, x |-> p.x, y |-> p.y, _d2tmp |-> 0]))
            ELSE AiLoop_WithPlayer(w, i + 1, ai)

AiLoop(w, i, ai) ==
    IF i >= Len0(w.probes) THEN ai
    ELSE LET p == w.probes[i]
         IN IF ~p.isPlayer /\ ~p.dead
            THEN AiLoop(w, i + 1, Push0(ai, [ref |-> i, x |-> p.x, y |-> p.y, _d2tmp |-> 0]))
            ELSE AiLoop(w, i + 1, ai)

\* The last loop of startBuild: ai[i].beginSacrifice for i < toSac.
RECURSIVE SacrificeLoop(_, _, _, _, _)
SacrificeLoop(w, ai, i, toSac, ts) ==
    IF i >= toSac THEN w
    ELSE SacrificeLoop(beginSacrifice(w, ai[i].ref, w.master.waypoint, ts[i]),
                       ai, i + 1, toSac, ts)

\* startBuild that does not record the number it selects.
startBuild_KeepsToSacrifice(w, ts) ==
    LET wp == IF w.master.waypoint = NullWp
              THEN [x |-> WORLD_W \div 2, y |-> WORLD_H \div 2] ELSE w.master.waypoint
        w1 == [w EXCEPT !.master.state = "BUILD", !.master.t = 0, !.master.sacrificed = 0,
                        !.master.waypoint = wp,
                        !.master.warpMachine = [x |-> wp.x, y |-> wp.y, mode |-> "BUILD"]]
        ai == AiLoop(w1, 0, Empty0)
        toSac == Len0(ai) \div 10
    IN IF toSac <= 0 THEN w1
       ELSE SacrificeLoop(w1, selectKClosestInPlace(ai, toSac, wp).arr, 0, toSac, ts)

\* startBuild that sacrifices the first toSac probes of the ai array.
startBuild_TakesFirst(w, ts) ==
    LET wp == IF w.master.waypoint = NullWp
              THEN [x |-> WORLD_W \div 2, y |-> WORLD_H \div 2] ELSE w.master.waypoint
        w1 == [w EXCEPT !.master.state = "BUILD", !.master.t = 0, !.master.sacrificed = 0,
                        !.master.waypoint = wp,
                        !.master.warpMachine = [x |-> wp.x, y |-> wp.y, mode |-> "BUILD"]]
        ai == AiLoop(w1, 0, Empty0)
        toSac == Len0(ai) \div 10
        w2 == [w1 EXCEPT !.master.toSacrifice = toSac]
    IN IF toSac <= 0 THEN w2
       ELSE SacrificeLoop(w2, ai, 0, toSac, ts)

\* startBuild; ts[i] is the sacrifice timer drawn for the i-th victim.
startBuild(w, ts) ==
    LET wp == IF w.master.waypoint = NullWp
              THEN [x |-> WORLD_W \div 2, y |-> WORLD_H \div 2] ELSE w.master.waypoint
        w1 == [w EXCEPT !.master.state = "BUILD", !.master.t = 0, !.master.sacrificed = 0,
                        !.master.waypoint = wp,
                        !.master.warpMachine = [x |-> wp.x, y |-> wp.y, mode |-> "BUILD"]]
        ai == AiLoop(w1, 0, Empty0)
        toSac == Len0(ai) \div 10
        w2 == [w1 EXCEPT !.master.toSacrifice = toSac]
    IN IF toSac <= 0 THEN w2
       ELSE SacrificeLoop(w2, selectKClosestInPlace(ai, toSac, wp).arr, 0, toSac, ts)

\* startCharge that lets the timer of BUILD run on.
startCharge_KeepsTimer(w) ==
    [w EXCEPT !.master.state = "CHARGE",
              !.master.warpMachine = IF @ # NullMachine THEN [@ EXCEPT !.mode = "CHARGE"] ELSE @]

\* startCharge that leaves the warp machine in its building mode.
startCharge_LeavesMode(w) ==
    [w EXCEPT !.master.state = "CHARGE", !.master.t = 0]

startCharge(w) ==
    [w EXCEPT !.master.state = "CHARGE", !.master.t = 0,
              !.master.warpMachine = IF @ # NullMachine THEN [@ EXCEPT !.mode = "CHARGE"] ELSE @]

\* performWarp that leaves the probes their waypoints.
performWarp_KeepsWaypoints(w, rnd) ==
    LET w1 == spawnSystem([w EXCEPT !.systemIndex = w.systemIndex + 1], rnd.layout)
        cx == WORLD_W \div 2
        cy == WORLD_H \div 2
    IN [w1 EXCEPT
          !.probes = [i \in DOMAIN w1.probes |->
             LET p == w1.probes[i]
             IN [p EXCEPT !.x = wrap01Fast(cx + rnd.land.x, WORLD_W),
                          !.y = wrap01Fast(cy + rnd.land.y, WORLD_H),
                          !.target = 0 - 1,
                          !.radarCooldown = IF p.isPlayer THEN @ ELSE rnd.radar,
                          !.wanderT = IF p.isPlayer THEN @ ELSE rnd.wander,
                          !.replCooldown = Max2(p.replCooldown, 500)]],
          !.master = [w1.master EXCEPT !.waypoint = NullWp, !.warpMachine = NullMachine,
                                       !.state = "NORMAL", !.t = 0]]

\* performWarp.  rnd: the resources spawnSystem draws (layout), each probe's
\* landing offset from the centre (land) and the cooldown draws (radar, wander).
performWarp(w, rnd) ==
    LET w1 == spawnSystem([w EXCEPT !.systemIndex = w.systemIndex + 1], rnd.layout)
        cx == WORLD_W \div 2
        cy == WORLD_H \div 2
    IN [w1 EXCEPT
          !.probes = [i \in DOMAIN w1.probes |->
             LET p == w1.probes[i]
             IN [p EXCEPT !.x = wrap01Fast(cx + rnd.land.x, WORLD_W),
                          !.y = wrap01Fast(cy + rnd.land.y, WORLD_H),
                          !.target = 0 - 1,
                          !.waypoint = NullWp,
                          !.radarCooldown = IF p.isPlayer THEN @ ELSE rnd.radar,
                          !.wanderT = IF p.isPlayer THEN @ ELSE rnd.wander,
                          !.replCooldown = Max2(p.replCooldown, 500)]],
          !.master = [w1.master EXCEPT !.waypoint = NullWp, !.warpMachine = NullMachine,
                                       !.state = "NORMAL", !.t = 0]]

\* remainingFrac <= 1 - MASTER_TRIGGER_DEPLETION: in doubles 1 - 0.90 is
\* 0.09999999999999998, below the double 0.1 that remaining = initial / 10
\* divides to, so the test is remaining * 10 < initial.
Depleted(w) == w.systemRemainingTotal * 10 < w.systemInitialTotal

\* masterUpdate that reads the trigger as remaining / initial <= 0.10.
masterUpdate_AtTenPercent(w, dt, rnd) ==
    IF dt <= 0 THEN w
    ELSE IF w.master.state = "NORMAL"
    THEN IF /\ w.systemInitialTotal > 0
            /\ w.systemRemainingTotal * 10 <= w.systemInitialTotal
            /\ Len0(w.probes) >= 1
         THEN startRally(w, rnd.wp) ELSE w
    ELSE LET w1 == [w EXCEPT !.master.t = AdvanceT(w.master.t, dt)]
         IN IF w1.master.state = "RALLY"
            THEN LET alive == Len0(w1.probes)
                     arrived == countArrivedAtWaypointSq(w1, RALLY_RADIUS2)
                     need == Max2(1, (alive * 65) \div 100)
                     timeoutOk == /\ w1.master.t >= RALLY_TIMEOUT
                                  /\ arrived >= Max2(1, (alive * 45) \div 100)
                 IN IF arrived >= need \/ timeoutOk THEN startBuild(w1, rnd.ts) ELSE w1
            ELSE IF w1.master.state = "BUILD"
            THEN IF w1.master.sacrificed >= w1.master.toSacrifice THEN startCharge(w1) ELSE w1
            ELSE IF w1.master.state = "CHARGE"
            THEN IF w1.master.t >= WARP_CHARGE_TIME THEN performWarp(w1, rnd) ELSE w1
            ELSE w1

\* masterUpdate without the timeout fallback of RALLY.
masterUpdate_NoFallback(w, dt, rnd) ==
    IF dt <= 0 THEN w
    ELSE IF w.master.state = "NORMAL"
    THEN IF /\ w.systemInitialTotal > 0
            /\ Depleted(w)
            /\ Len0(w.probes) >= 1
         THEN startRally(w, rnd.wp) ELSE w
    ELSE LET w1 == [w EXCEPT !.master.t = AdvanceT(w.master.t, dt)]
         IN IF w1.master.state = "RALLY"
            THEN LET alive == Len0(w1.probes)
                     arrived == countArrivedAtWaypointSq(w1, RALLY_RADIUS2)
                     need == Max2(1, (alive * 65) \div 100)
                     timeoutOk == /\ FALSE
                                  /\ arrived >= Max2(1, (alive * 45) \div 100)
                 IN IF arrived >= need \/ timeoutOk THEN startBuild(w1, rnd.ts) ELSE w1
            ELSE IF w1.master.state = "BUILD"
            THEN IF w1.master.sacrificed >= w1.master.toSacrifice THEN startCharge(w1) ELSE w1
            ELSE IF w1.master.state = "CHARGE"
            THEN IF w1.master.t >= WARP_CHARGE_TIME THEN performWarp(w1, rnd) ELSE w1
            ELSE w1

\* masterUpdate; floor(alive * 0.65) and floor(alive * 0.45) are exact in doubles.
\* masterUpdate whose BUILD waits for more sacrifices than it asked for.
masterUpdate_BuildWaitsForMore(w, dt, rnd) ==
    IF dt <= 0 THEN w
    ELSE IF w.master.state = "NORMAL"
    THEN IF /\ w.systemInitialTotal > 0
            /\ Depleted(w)
            /\ Len0(w.probes) >= 1
         THEN startRally(w, rnd.wp) ELSE w
    ELSE LET w1 == [w EXCEPT !.master.t = AdvanceT(w.master.t, dt)]
         IN IF w1.master.state = "RALLY"
            THEN LET alive == Len0(w1.probes)
                     arrived == countArrivedAtWaypointSq(w1, RALLY_RADIUS2)
                     need == Max2(1, (alive * 65) \div 100)
                     timeoutOk == /\ w1.master.t >= RALLY_TIMEOUT
                                  /\ arrived >= Max2(1, (alive * 45) \div 100)
                 IN IF arrived >= need \/ timeoutOk THEN startBuild(w1, rnd.ts) ELSE w1
            ELSE IF w1.master.state = "BUILD"
            THEN IF w1.master.sacrificed > w1.master.toSacrifice THEN startCharge(w1) ELSE w1
            ELSE IF w1.master.state = "CHARGE"
            THEN IF w1.master.t >= WARP_CHARGE_TIME THEN performWarp(w1, rnd) ELSE w1
            ELSE w1

masterUpdate(w, dt, rnd) ==
    IF dt <= 0 THEN w
    ELSE IF w.master.state = "NORMAL"
    THEN IF /\ w.systemInitialTotal > 0
            /\ Depleted(w)
            /\ Len0(w.probes) >= 1
         THEN startRally(w, rnd.wp) ELSE w
    ELSE LET w1 == [w EXCEPT !.master.t = AdvanceT(w.master.t, dt)]
         IN IF w1.master.state = "RALLY"
            THEN LET alive == Len0(w1.probes)
                     arrived == countArrivedAtWaypointSq(w1, RALLY_RADIUS2)
                     need == Max2(1, (alive * 65) \div 100)
                     timeoutOk == /\ w1.master.t >= RALLY_TIMEOUT
                                  /\ arrived >= Max2(1, (alive * 45) \div 100)
                 IN IF arrived >= need \/ timeoutOk THEN startBuild(w1, rnd.ts) ELSE w1
            ELSE IF w1.master.state = "BUILD"
            THEN IF w1.master.sacrificed >= w1.master.toSacrifice THEN startCharge(w1) ELSE w1
            ELSE IF w1.master.state = "CHARGE"
            THEN IF w1.master.t >= WARP_CHARGE_TIME THEN performWarp(w1, rnd) ELSE w1
            ELSE w1

\* The compaction loop of purgeSacrificed: the probes kept, in order.
RECURSIVE PurgeLoop(_, _, _)
PurgeLoop(ps, i, kept) ==
    IF i >= Len0(ps) THEN kept
    ELSE IF ps[i].dead THEN PurgeLoop(ps, i + 1, kept)
    ELSE PurgeLoop(ps, i + 1, Push0(kept, ps[i]))

\* purgeSacrificed that does not count what it removes.
purgeSacrificed_Uncounted(w) == [w EXCEPT !.probes = PurgeLoop(w.probes, 0, Empty0)]

purgeSacrificed(w) ==
    LET kept == PurgeLoop(w.probes, 0, Empty0)
        died == Len0(w.probes) - Len0(kept)
    IN IF died > 0
       THEN [w EXCEPT !.probes = kept, !.master.sacrificed = w.master.sacrificed + died]
       ELSE w

-----------------------------------------------------------------------------
(* Bounds of the model and the sets its random draws are taken from *)

\* One step of the model is simStep(dt) with dt = TicksPerStep fixed ticks,
\* so that the phase timers (22 s, 5.5 s, 0.7..1.25 s) expire within few steps.
TicksPerStep == 50

DT == TicksPerStep * FIXED_DT

\* The probes at indices below MaxMobile change their neighbourhood in an
\* update; the others stay in theirs.
MaxMobile == 1

\* The ticks of systems 1..MaxSystems are followed; the tick that warps out of
\* the last of them is followed to its end.
MaxSystems == 1

Pt(x, y) == [x |-> x, y |-> y]

\* Where an update may leave a mobile probe: beside resources 0 and 1, beside
\* resource 2 across the world's edge, and far from both.
PosSet == {Pt(110, 100), Pt(5, 100), Pt(12100, 12000)}

\* rand(0, WORLD.w), rand(0, WORLD.h) of startRally
WaypointSet == {Pt(200, 200), Pt(12000, 12100)}

\* rand(0.7, 1.25) of beginSacrifice
SacrificeTSet == {700, 1250}

\* rand(RADAR_COOLDOWN_MIN, RADAR_COOLDOWN_MAX), and the constructor's and
\* performWarp's cooldown draws
RadarDrawSet == {1000}

\* rand(WANDER_MIN, WANDER_MAX), and the constructor's and performWarp's draws
WanderDrawSet == {1000}

\* rand(1.8, 3.4) of tryAutoReplicate
ReplCooldownSet == {2000}

\* (cos(a) * m, sin(a) * m) with m = rand(22, 45) of replicate
ChildOffsetSet == {Pt(30, 0)}

\* rand(0.95, 1.06) of mutateDNA, in percent
MutationSet == {100}

\* (cos(a) * m, sin(a) * m) with m = rand(40, 560) of performWarp
LandingSet == {Pt(100, 0)}

ResSpec(kind, x, y, maxAmt, radius) ==
    [kind |-> kind, x |-> x, y |-> y, maxAmt |-> maxAmt, radius |-> radius]

\* What spawnSystem may draw: two resources of capacity 25 (radius
\* 8 + 0.52 * 5) in one grid cell and one of capacity 36 (radius 8 + 0.52 * 6)
\* in the last, partial grid column.
LayoutSet ==
    { [i \in 0..2 |-> CASE i = 0 -> ResSpec(0, 100, 100, 25000, 1060)
                        [] i = 1 -> ResSpec(0, 130, 100, 25000, 1060)
                        [] i = 2 -> ResSpec(0, 23990, 100, 36000, 1112)] }

-----------------------------------------------------------------------------
(* simStep, one phase per step *)

SetWorld(w) ==
    /\ probes' = w.probes
    /\ resources' = w.resources
    /\ resourceActive' = w.resourceActive
    /\ resGrid' = w.resGrid
    /\ systemInitialTotal' = w.systemInitialTotal
    /\ systemRemainingTotal' = w.systemRemainingTotal
    /\ systemIndex' = w.systemIndex
    /\ master' = w.master

\* for (i < probes.length) probes[i].update(dt)
RECURSIVE UpdateLoop(_, _, _, _, _)
UpdateLoop(w, i, dt, mv, rnd) ==
    IF i >= Len0(w.probes) THEN w
    ELSE LET to == IF i < MaxMobile THEN mv[i] ELSE Pt(w.probes[i].x, w.probes[i].y)
         IN UpdateLoop(update(w, i, dt, to, rnd), i + 1, dt, mv, rnd)

\* for (i < probes.length) probes[i].harvest(dt)
RECURSIVE HarvestLoop(_, _, _)
HarvestLoop(w, i, dt) ==
    IF i >= Len0(w.probes) THEN w
    ELSE HarvestLoop(harvest(w, i, dt), i + 1, dt)

\* for (i < probes.length) probes[i].tryAutoReplicate(dt): the length is read
\* again in every round, so the children pushed are visited too.
RECURSIVE ReplicateLoop(_, _, _, _)
ReplicateLoop(w, i, dt, rnd) ==
    IF i >= Len0(w.probes) THEN w
    ELSE ReplicateLoop(tryAutoReplicate(w, i, dt, rnd), i + 1, dt, rnd)

UpdatePhase ==
    /\ pc = "update"
    /\ systemIndex <= MaxSystems
    /\ \E mv \in [0..(MaxMobile - 1) -> PosSet], radar \in RadarDrawSet, wander \in WanderDrawSet :
          SetWorld(UpdateLoop(World, 0, DT, mv, [radar |-> radar, wander |-> wander]))
    /\ pc' = "harvest"
    /\ hist' = [hist EXCEPT !.startState = master.state, !.startBelow = Depleted(World)]
    /\ UNCHANGED <<simAcc, arg, ret>>

HarvestPhase ==
    /\ pc = "harvest"
    /\ SetWorld(HarvestLoop(World, 0, DT))
    /\ pc' = "replicate"
    /\ UNCHANGED <<simAcc, hist, arg, ret>>

ReplicateRnd ==
    { [off |-> o, mut |-> m, radar |-> r, wander |-> wd, cooldown |-> c] :
        o \in ChildOffsetSet, m \in MutationSet, r \in RadarDrawSet,
        wd \in WanderDrawSet, c \in ReplCooldownSet }

ReplicatePhase ==
    /\ pc = "replicate"
    /\ IF master.state = "NORMAL"
       THEN \E rnd \in ReplicateRnd : SetWorld(ReplicateLoop(World, 0, DT, rnd))
       ELSE SetWorld(World)
    /\ pc' = "master"
    /\ UNCHANGED <<simAcc, hist, arg, ret>>

\* The draws one masterUpdate can use in world w.
MasterRnd(w) ==
    LET nAi == Cardinality({i \in DOMAIN w.probes : ~w.probes[i].isPlayer /\ ~w.probes[i].dead})
    IN { [wp |-> wp, ts |-> ts, layout |-> l, land |-> ld, radar |-> r, wander |-> wd] :
           wp \in (IF w.master.state = "NORMAL" THEN WaypointSet ELSE {NullWp}),
           ts \in (IF w.master.state = "RALLY"
                   THEN [0..((nAi \div 10) - 1) -> SacrificeTSet] ELSE {Empty0}),
           l \in LayoutSet, ld \in LandingSet, r \in RadarDrawSet, wd \in WanderDrawSet }

\* What the master step adds to the history of the rally cycle.
NextHist(w0, w1) ==
    [rallyPop |-> IF w0.master.state = "NORMAL" /\ w1.master.state = "RALLY"
                  THEN Len0(w1.probes) ELSE hist.rallyPop,
     selected |-> IF w0.master.state = "RALLY" /\ w1.master.state = "BUILD"
                  THEN Cardinality({i \in DOMAIN w1.probes : w1.probes[i].sacrificing})
                  ELSE IF w1.master.state = "RALLY" THEN 0 ELSE hist.selected,
     justWarped |-> w0.master.state = "CHARGE" /\ w1.master.state = "NORMAL",
     startState |-> hist.startState,
     startBelow |-> hist.startBelow]

\* The master step of a simStep that compacts the collection before it calls
\* masterUpdate.
MasterPhase_PurgesFirst ==
    /\ pc = "master"
    /\ \E rnd \in MasterRnd(World) :
          LET w1 == masterUpdate(purgeSacrificed(World), DT, rnd)
          IN /\ SetWorld(w1)
             /\ hist' = NextHist(World, w1)
    /\ pc' = "purge"
    /\ UNCHANGED <<simAcc, arg, ret>>

MasterPhase ==
    /\ pc = "master"
    /\ \E rnd \in MasterRnd(World) :
          LET w1 == masterUpdate(World, DT, rnd)
          IN /\ SetWorld(w1)
             /\ hist' = NextHist(World, w1)
    /\ pc' = "purge"
    /\ UNCHANGED <<simAcc, arg, ret>>

PurgePhase ==
    /\ pc = "purge"
    /\ SetWorld(purgeSacrificed(World))
    /\ pc' = "update"
    /\ hist' = [hist EXCEPT !.justWarped = FALSE]
    /\ UNCHANGED <<simAcc, arg, ret>>

\* keyPressed with key " ", "r" or "R" while not paused; it runs between frames.
keyPressedCapped(w, rnd, cap) ==
    IF w.master.state # "NORMAL" THEN w
    ELSE LET player == CHOOSE i \in DOMAIN w.probes : w.probes[i].isPlayer
             cost == replicateCost
         IN IF w.probes[player].resources >= cost /\ Len0(w.probes) < cap
            THEN replicateCapped(w, player, cost, rnd, cap) ELSE w

keyPressed(w, rnd) == keyPressedCapped(w, rnd, HARD_PROBE_CAP)

KeyPressed ==
    /\ pc = "update"
    /\ systemIndex <= MaxSystems
    /\ \E rnd \in ReplicateRnd : SetWorld(keyPressed(World, rnd))
    /\ UNCHANGED <<simAcc, pc, hist, arg, ret>>

-----------------------------------------------------------------------------
(* Initial states: setup(), and states simStep has led to before *)

\* The globals as declared, before setup() has run.
Declared ==
    [probes |-> Empty0, resources |-> Empty0, resourceActive |-> Empty0, resGrid |-> Empty0,
     systemInitialTotal |-> 0, systemRemainingTotal |-> 0, systemIndex |-> 1,
     master |-> [state |-> "NORMAL", waypoint |-> NullWp, t |-> 0, sacrificed |-> 0,
                 toSacrifice |-> 0, warpMachine |-> NullMachine]]

\* makeDNA(true).harvest
PlayerHarvest == 22

\* setup(): spawnSystem(), then the player at the centre of the world.
setup(layout, radar, wander) ==
    LET w == spawnSystem(Declared, layout)
    IN [w EXCEPT !.probes = Push0(w.probes,
                    Probe(WORLD_W \div 2, WORLD_H \div 2, TRUE, PlayerHarvest, 0, radar, wander))]

\* The pool after earlier harvests have taken all of `taken` from resource
\* ridx, each of them leaving more than 0.001 or exactly nothing.
Taken(w, ridx, taken) ==
    LET left == w.resources[ridx].amt - taken
        w1 == [w EXCEPT !.resources[ridx].amt = left,
                        !.systemRemainingTotal = w.systemRemainingTotal - taken]
    IN IF left = 0 THEN deactivateResource(w1, ridx) ELSE w1

\* The collection after Len0(ats) earlier replications whose children have
\* come to the positions ats, each carrying `carried`.
RECURSIVE Children(_, _, _, _, _)
Children(w, j, ats, carried, rnd) ==
    IF j >= Len0(ats) THEN w
    ELSE Children([w EXCEPT !.probes = Push0(w.probes,
                      [Probe(ats[j].x, ats[j].y, FALSE, 25, 0, rnd.radar, rnd.wander)
                         EXCEPT !.resources = carried])],
                  j + 1, ats, carried, rnd)

\* How much of resources 0, 1, 2 of the layout has been taken already.
PoolSet == { <<0, 0, 0>>, <<25000, 25000, 27400>>, <<25000, 25000, 13999>> }

\* How many children there are already, and what each carries.
CrowdSet == {0, 1, 3, 10}

CarriedSet == {12000, 100000, 108000}

\* What the player carries.
PlayerCarriedSet == {0, 100000}

InitWorld(layout, pool, ats, carried, at, pcarried) ==
    LET rnd == [radar |-> 1000, wander |-> 1000]
        w0 == setup(layout, rnd.radar, rnd.wander)
        w1 == Taken(Taken(Taken(w0, 0, pool[1]), 1, pool[2]), 2, pool[3])
        w2 == Children(w1, 0, ats, carried, rnd)
    IN [w2 EXCEPT !.probes[0].x = at.x, !.probes[0].y = at.y,
                  !.probes[0].resources = pcarried]

\* The history kept beside the program's state: the population when the current
\* rally began, the probes the current BUILD selected, whether the last master
\* step warped, and the master's state and the depletion when the tick began.
NoHist == [rallyPop |-> 0, selected |-> 0, justWarped |-> FALSE,
           startState |-> "NORMAL", startBelow |-> FALSE]

NoArg == [op |-> "none"]

InitFrom(w) ==
    /\ probes = w.probes
    /\ resources = w.resources
    /\ resourceActive = w.resourceActive
    /\ resGrid = w.resGrid
    /\ systemInitialTotal = w.systemInitialTotal
    /\ systemRemainingTotal = w.systemRemainingTotal
    /\ systemIndex = w.systemIndex
    /\ master = w.master
    /\ simAcc = AccZero

Init ==
    /\ \E layout \in LayoutSet, pool \in PoolSet, crowd \in CrowdSet, carried \in CarriedSet,
          at \in PosSet \cup {Pt(WORLD_W \div 2, WORLD_H \div 2)}, pcarried \in PlayerCarriedSet :
          InitFrom(InitWorld(layout, pool, [j \in 0..(crowd - 1) |-> Pt(5, 100)],
                             carried, at, pcarried))
    /\ pc = "update"
    /\ hist = NoHist
    /\ arg = NoArg
    /\ ret = NoArg

Next == UpdatePhase \/ HarvestPhase \/ ReplicatePhase \/ MasterPhase \/ PurgePhase \/ KeyPressed

Spec == Init /\ [][Next]_vars

-----------------------------------------------------------------------------
(* wrap01Fast and wrapDeltaFast on their own *)

\* How many sizes away from [0, size) an argument of wrap01Fast may lie.
MaxWraps == 3

WrapSizeSet == {1, 3, 4, WORLD_W}

\* Arguments within 2 of a multiple of the size, up to MaxWraps sizes away.
WrapArgs ==
    { [op |-> "wrap01Fast", v |-> k * size + e, size |-> size] :
        size \in WrapSizeSet, k \in (0 - MaxWraps)..MaxWraps, e \in (0 - 2)..2 }

\* Two coordinates in [0, size): all of them for the small sizes, those about
\* the ends and the middle for the world's size.
CoordSet(size) ==
    { c \in 0..(size - 1) : \/ size <= 4
                            \/ c <= 1 \/ c >= size - 2
                            \/ (2 * c >= size - 2 /\ 2 * c <= size + 2) }

InitWrap ==
    /\ InitFrom(Declared)
    /\ pc = "call"
    /\ hist = NoHist
    /\ arg \in WrapArgs \cup
               UNION { { [op |-> "wrapDeltaFast", ax |-> ax, bx |-> bx, size |-> size] :
                           ax \in CoordSet(size), bx \in CoordSet(size) } : size \in WrapSizeSet }
    /\ ret = NoArg

\* v = wrap01Fast(v, size)
CallWrap ==
    /\ pc = "call"
    /\ arg.op = "wrap01Fast"
    /\ ret' = [op |-> arg.op, val |-> wrap01Fast(arg.v, arg.size), again |-> 0 - 1]
    /\ pc' = "wrapped"
    /\ UNCHANGED <<simVars, simAcc, hist, arg>>

\* wrap01Fast applied to its own result
CallWrapAgain ==
    /\ pc = "wrapped"
    /\ ret' = [ret EXCEPT !.again = wrap01Fast(ret.val, arg.size)]
    /\ pc' = "rewrapped"
    /\ UNCHANGED <<simVars, simAcc, hist, arg>>

\* dx = wrapDeltaFast(bx - ax, size)
CallDelta ==
    /\ pc = "call"
    /\ arg.op = "wrapDeltaFast"
    /\ ret' = [op |-> arg.op, val |-> wrapDeltaFast(arg.bx - arg.ax, arg.size)]
    /\ pc' = "delta"
    /\ UNCHANGED <<simVars, simAcc, hist, arg>>

NextWrap == CallWrap \/ CallWrapAgain \/ CallDelta

SpecWrap == InitWrap /\ [][NextWrap]_vars

\* C9: for every v and size > 0, wrap01Fast(v, size) lies in [0, size), is
\* congruent to v modulo size, and wrapping the result again returns it.
C9_WrapRangeIdempotent ==
    /\ pc \in {"wrapped", "rewrapped"} =>
          /\ 0 <= ret.val /\ ret.val < arg.size
          /\ (ret.val - arg.v) % arg.size = 0
    /\ pc = "rewrapped" => ret.again = ret.val

\* A value more than one world size below zero has been wrapped twice.
C9_Witness ==
    /\ pc = "rewrapped"
    /\ arg.size = WORLD_W
    /\ arg.v < 0 - WORLD_W
    /\ ret.val = WORLD_W - 2
    /\ ret.again = ret.val

\* C10: for two positions in [0, size), wrapDeltaFast(bx - ax, size) is
\* congruent to bx - ax modulo size and lies in (-size/2, size/2].
C10_DeltaHalfOpen ==
    pc = "delta" =>
       /\ (ret.val - (arg.bx - arg.ax)) % arg.size = 0
       /\ 2 * ret.val > 0 - arg.size
       /\ 2 * ret.val <= arg.size

-----------------------------------------------------------------------------
(* selectKClosestInPlace on its own *)

\* The longest candidate array.
MaxSel == 5

\* The point the candidates are ranked by.
SelWaypoint == Pt(200, 200)

\* Candidate positions: two at the same distance from the waypoint, one
\* farther, one whose shortest path to it crosses the world's edge.
SelPosSet == {Pt(110, 100), Pt(290, 300), Pt(5, 100), Pt(23990, 300)}

SelArrays ==
    UNION { { [i \in 0..(n - 1) |-> [ref |-> i, x |-> f[i].x, y |-> f[i].y, _d2tmp |-> 0]] :
                f \in [0..(n - 1) -> SelPosSet] } : n \in 0..MaxSel }

InitSel ==
    /\ InitFrom(Declared)
    /\ pc = "call"
    /\ hist = NoHist
    /\ \E arr \in SelArrays : \E k \in 0..Len0(arr) :
          arg = [op |-> "selectKClosestInPlace", arr |-> arr, k |-> k, wp |-> SelWaypoint]
    /\ ret = NoArg

\* selectKClosestInPlace(ai, toSac, master.waypoint)
CallSelect ==
    /\ pc = "call"
    /\ arg.op = "selectKClosestInPlace"
    /\ LET r == selectKClosestInPlace(arg.arr, arg.k, arg.wp)
       IN ret' = [op |-> arg.op, arr |-> r.arr, iters |-> r.iters]
    /\ pc' = "selected"
    /\ UNCHANGED <<simVars, simAcc, hist, arg>>

NextSel == CallSelect

SpecSel == InitSel /\ [][NextSel]_vars

\* The wrapped squared distance of candidate c from the waypoint of the call.
SelD2(c) == WrappedD2(arg.wp.x, arg.wp.y, c.x, c.y)

\* C3: for every array of N >= 0 candidates and every K in 0..N,
\* selectKClosestInPlace returns after at most N partitions, leaves the array
\* a permutation of its input, and leaves in positions 0..K-1 candidates none
\* of which is farther from the point than any candidate in positions K..N-1.
C3_SelectKClosest ==
    pc = "selected" =>
       /\ ret.iters <= Len0(arg.arr)
       /\ DOMAIN ret.arr = DOMAIN arg.arr
       /\ { ret.arr[i].ref : i \in DOMAIN ret.arr } = DOMAIN arg.arr
       /\ \A i \in DOMAIN ret.arr :
             /\ ret.arr[i].x = arg.arr[ret.arr[i].ref].x
             /\ ret.arr[i].y = arg.arr[ret.arr[i].ref].y
       /\ \A i \in DOMAIN ret.arr : \A j \in DOMAIN ret.arr :
             (i < arg.k /\ j >= arg.k) => SelD2(ret.arr[i]) <= SelD2(ret.arr[j])

\* Five candidates with tied distances, the two closest of them asked for, and
\* a selection that took more than one partition and moved a candidate.
C3_Witness ==
    /\ pc = "selected"
    /\ Len0(arg.arr) = MaxSel
    /\ arg.k = 2
    /\ ret.iters >= 2
    /\ \E i \in DOMAIN arg.arr : \E j \in DOMAIN arg.arr :
          i # j /\ SelD2(arg.arr[i]) = SelD2(arg.arr[j])
    /\ \E i \in DOMAIN ret.arr : ret.arr[i].ref # i
    /\ \E i \in DOMAIN arg.arr : i < arg.k /\ SelD2(arg.arr[i]) > SelD2(ret.arr[i])

-----------------------------------------------------------------------------
(* The simulation: resource pool and grid *)

\* The (cell, slot) pairs of the grid that hold resource index idx.
GridSlotsOf(idx) ==
    { cs \in UNION { { <<c, k>> : k \in DOMAIN resGrid[c] } : c \in DOMAIN resGrid } :
        resGrid[cs[1]][cs[2]] = idx }

\* C8: every active resource is in the grid exactly once, in the cell computed
\* from its position and at the slot its back-reference (_gridCell,
\* _gridIndex) records; an inactive resource is in no cell; the grid holds
\* nothing else.  It holds at every tick boundary and between the phases.
C8_GridConsistent ==
    /\ \A idx \in DOMAIN resources :
          LET r == resources[idx]
          IN IF r.active
             THEN /\ r._gridCell = cellIndexForPos(r.x, r.y)
                  /\ GridSlotsOf(idx) = { <<r._gridCell, r._gridIndex>> }
             ELSE GridSlotsOf(idx) = {}
    /\ \A c \in DOMAIN resGrid : \A k \in DOMAIN resGrid[c] : resGrid[c][k] \in DOMAIN resources

\* Resource 0 has been removed from the cell it shared with resource 1, which
\* was the last of the cell and has been moved into slot 0.
C8_Witness ==
    /\ pc = "update"
    /\ Len0(resources) >= 2
    /\ ~resources[0].active
    /\ resources[1].active
    /\ resources[1]._gridCell = cellIndexForPos(resources[0].x, resources[0].y)
    /\ resources[1]._gridIndex = 0

RECURSIVE SumAmt(_, _)
SumAmt(res, i) == IF i >= Len0(res) THEN 0 ELSE res[i].amt + SumAmt(res, i + 1)

\* C2: at every tick boundary systemRemainingTotal equals the sum of amt over
\* the resources of the current system.
C2_RemainingIsSum ==
    pc = "update" => systemRemainingTotal = SumAmt(resources, 0)

-----------------------------------------------------------------------------
(* The simulation: the sacrifices of a BUILD phase *)

\* The probes of the collection that have been put into the sacrificing state.
Sacrificing == { i \in DOMAIN probes : probes[i].sacrificing }

\* C1: a BUILD phase entered with toSacrifice = K has put exactly K probes
\* into the sacrificing state, none of them the player; only they become dead,
\* and the dead are removed by the end of the tick; through BUILD the probes
\* removed so far (master.sacrificed) and the sacrificing ones still in the
\* collection add up to K, so the count grows from 0 to K and never beyond;
\* when CHARGE has begun none is left and master.sacrificed is exactly K.
C1_SacrificeAccounting ==
    /\ \A i \in Sacrificing : ~probes[i].isPlayer
    /\ \A i \in DOMAIN probes : probes[i].dead => probes[i].sacrificing
    /\ pc = "update" => \A i \in DOMAIN probes : ~probes[i].dead
    /\ master.state \in {"NORMAL", "RALLY"} => Sacrificing = {}
    /\ master.state \in {"BUILD", "CHARGE"} => hist.selected = master.toSacrifice
    /\ master.state = "BUILD" =>
          Cardinality(Sacrificing) + master.sacrificed = master.toSacrifice
    /\ master.state = "CHARGE" =>
          Sacrificing = {} /\ master.sacrificed = master.toSacrifice

\* CHARGE has begun after a BUILD phase that sacrificed two probes.
C1_Witness ==
    /\ master.state = "CHARGE"
    /\ master.toSacrifice = 2
    /\ master.sacrificed = 2
    /\ hist.selected = 2
    /\ Sacrificing = {}

-----------------------------------------------------------------------------
(* The simulation: the rally cycle *)

C6_PopulationAcrossCycle ==
    /\ master.state \in {"RALLY", "BUILD", "CHARGE"} =>
          Len0(probes) = hist.rallyPop - master.sacrificed
    /\ hist.justWarped =>
          /\ master.state = "NORMAL"
          /\ master.sacrificed = hist.selected
          /\ Len0(probes) = hist.rallyPop - hist.selected

\* The warp of a cycle that sacrificed a probe has just been performed.
C6_Witness ==
    /\ hist.justWarped
    /\ pc = "purge"
    /\ hist.selected >= 1
    /\ hist.rallyPop >= 11
    /\ Len0(probes) = hist.rallyPop - hist.selected
    /\ systemIndex = 2

-----------------------------------------------------------------------------
(* The simulation: replication *)

\* The step is the replication phase of a tick or a replicate key press.
ReplicationStep == pc = "replicate" \/ (pc = "update" /\ pc' = "update")

\* C7: in a replication step a probe carrying less than replicateCost is left
\* as it is; a probe that replicates carried at least the cost and loses
\* exactly the cost; the collection grows by one child per replicating probe,
\* each child appended with CHILD_START_RES and as a non-player; and when no
\* probe can pay, nothing changes.
C7_ReplicationCost ==
    [][ReplicationStep =>
         LET n == Len0(probes)
             m == Len0(probes')
             payers == { i \in 0..(n - 1) : probes'[i] # probes[i] }
         IN /\ m >= n
            /\ \A i \in 0..(n - 1) : probes[i].resources < replicateCost => probes'[i] = probes[i]
            /\ \A i \in payers :
                  /\ probes[i].resources >= replicateCost
                  /\ probes'[i].resources = probes[i].resources - replicateCost
                  /\ [probes'[i] EXCEPT !.resources = 0, !.replCooldown = 0]
                       = [probes[i] EXCEPT !.resources = 0, !.replCooldown = 0]
            /\ m - n = Cardinality(payers)
            /\ \A j \in n..(m - 1) :
                  /\ probes'[j].resources = CHILD_START_RES
                  /\ ~probes'[j].isPlayer
            /\ (\A i \in 0..(n - 1) : probes[i].resources < replicateCost) => probes' = probes
    ]_vars

\* The replication phase of a tick has just run, a probe that carried 1.08
\* times the cost has paid exactly the cost and drawn its cooldown, and its
\* child is the last of the collection.
C7_Witness ==
    /\ pc = "master"
    /\ Len0(probes) >= 3
    /\ \E i \in DOMAIN probes :
          /\ ~probes[i].isPlayer
          /\ probes[i].resources = 108000 - replicateCost
          /\ probes[i].replCooldown \in ReplCooldownSet
    /\ probes[Len0(probes) - 1].resources = CHILD_START_RES
    /\ ~probes[Len0(probes) - 1].isPlayer

-----------------------------------------------------------------------------
(* The rally under fair ticking *)

\* The phase simStep runs after phase p.
NextPc(p) ==
    CASE p = "update" -> "harvest"
      [] p = "harvest" -> "replicate"
      [] p = "replicate" -> "master"
      [] p = "master" -> "purge"
      [] p = "purge" -> "update"

\* draw() runs simStep in every frame, and simStep runs its phases one after
\* the other: the phase whose turn it is is eventually taken.  The steps that
\* change pc are those of the five phases, each enabled whenever it is its
\* turn (within MaxSystems), so this is weak fairness of the tick; no key
\* press has to come.
TickAdvances ==
    /\ pc # "update" \/ systemIndex <= MaxSystems
    /\ pc' = NextPc(pc)

\* The children of the fair runs: none, or three of which one is where the
\* far waypoint will be and two are beside the near one, or ten beside the
\* near one (a BUILD on them sacrifices one).
FairCrowdSet == { Empty0,
                  [j \in 0..2 |-> IF j = 1 THEN Pt(12100, 12000) ELSE Pt(5, 100)],
                  [j \in 0..9 |-> Pt(5, 100)] }

\* The last resource is at 10% of the system's initial total: the next harvest
\* starts the rally.
InitFair ==
    /\ \E layout \in LayoutSet, ats \in FairCrowdSet,
          at \in PosSet \cup {Pt(WORLD_W \div 2, WORLD_H \div 2)}, pcarried \in PlayerCarriedSet :
          InitFrom(InitWorld(layout, <<25000, 25000, 27400>>, ats, 12000, at, pcarried))
    /\ pc = "update"
    /\ hist = NoHist
    /\ arg = NoArg
    /\ ret = NoArg

FairSpec == InitFair /\ [][Next]_vars /\ WF_pc(TickAdvances)

\* arrived >= max(1, floor(alive * 0.45)) of masterUpdate
ArrivedFallback ==
    countArrivedAtWaypointSq(World, RALLY_RADIUS2) >= Max2(1, (Len0(probes) * 45) \div 100)

\* arrived >= max(1, floor(alive * RALLY_FRACTION)) of masterUpdate
ArrivedNeed ==
    countArrivedAtWaypointSq(World, RALLY_RADIUS2) >= Max2(1, (Len0(probes) * 65) \div 100)

\* C4, as stated: under fair ticking a master in RALLY eventually enters
\* BUILD, whether or not the probes converge on the waypoint.
C4_RallyReachesBuild == (master.state = "RALLY") ~> (master.state = "BUILD")

\* C4, amended: under fair ticking a master in RALLY eventually enters BUILD
\* unless at some time fewer than max(1, floor(0.45 * alive)) probes are within
\* the rally radius of the waypoint: the timeout lowers the arrivals needed
\* from 65% to 45% of the population but never below one probe.
C4_RallyReachesBuildIfArrived ==
    (master.state = "RALLY") ~> (master.state = "BUILD" \/ ~ArrivedFallback)

\* BUILD has just begun on the timeout: fewer probes than the rally fraction
\* asks for are at the waypoint, but as many as the fallback asks for.
C4_Witness ==
    /\ pc = "purge"
    /\ master.state = "BUILD"
    /\ master.t = 0
    /\ hist.startState = "RALLY"
    /\ Len0(probes) = 4
    /\ ArrivedFallback
    /\ ~ArrivedNeed

-----------------------------------------------------------------------------
(* The order of the master's phases *)

\* The changes of phase one masterUpdate can make; performWarp passes through
\* WARP and leaves NORMAL.
PhaseEdges == { <<"NORMAL", "RALLY">>, <<"RALLY", "BUILD">>,
                <<"BUILD", "CHARGE">>, <<"CHARGE", "NORMAL">> }

\* C11: the master's phase changes only in the master step of a tick, so at
\* most once between two tick boundaries, and only along NORMAL -> RALLY,
\* RALLY -> BUILD, BUILD -> CHARGE and CHARGE -> (WARP ->) NORMAL; the step
\* that changes it leaves the phase timer at 0; the phase a tick ends in is
\* the one it began in or that one's successor.
C11_PhaseOrder ==
    [][ /\ master'.state # master.state =>
              /\ pc = "master" /\ pc' = "purge"
              /\ <<master.state, master'.state>> \in PhaseEdges
              /\ master'.t = 0
              /\ hist.startState = master.state
        /\ (pc = "master" /\ master'.state = master.state /\ master.state # "NORMAL") =>
              master'.t = AdvanceT(master.t, DT)
        /\ pc # "master" => master'.t = master.t
    ]_vars

\* A whole cycle has been gone through: the master step of this tick has
\* warped, from CHARGE to NORMAL, with the timer at 0.
C11_Witness ==
    /\ pc = "purge"
    /\ hist.justWarped
    /\ hist.startState = "CHARGE"
    /\ master.state = "NORMAL"
    /\ master.t = 0
    /\ systemIndex = 2

-----------------------------------------------------------------------------
(* A BUILD that selects no probe *)

\* C12, as stated: when startBuild selects no probe (floor(10% of the
\* non-player probes) = 0) the master is in BUILD at no tick boundary.
C12_BuildSkipped ==
    ~(pc = "update" /\ master.state = "BUILD" /\ master.toSacrifice = 0)

\* C12, amended: when startBuild selects no probe, no probe is sacrificing or
\* dead in that BUILD, and the master step of the tick that begins in that
\* BUILD starts CHARGE: BUILD is the phase at exactly one tick boundary.
C12_EmptyBuildLastsOneTick ==
    (master.state \in {"BUILD", "CHARGE"} /\ master.toSacrifice = 0) =>
        /\ \A i \in DOMAIN probes : ~probes[i].sacrificing /\ ~probes[i].dead
        /\ master.sacrificed = 0
        /\ Len0(probes) <= 10
        /\ (master.state = "BUILD" /\ pc \in {"purge", "update"}) => hist.startState = "RALLY"
        /\ (hist.startState = "BUILD" /\ pc \in {"purge", "update"}) => master.state = "CHARGE"

\* The master step of the tick that began in a BUILD of no sacrifice has
\* started CHARGE.
C12_Witness ==
    /\ pc = "purge"
    /\ hist.startState = "BUILD"
    /\ master.state = "CHARGE"
    /\ master.toSacrifice = 0
    /\ master.t = 0
    /\ Len0(probes) = 4

-----------------------------------------------------------------------------
(* The order of the phases of a tick *)

\* The probes of the collection that are not dead, and how many of them come
\* before index i.
Living == { i \in DOMAIN probes : ~probes[i].dead }

LivingBefore(i) == Cardinality({ k \in Living : k < i })

\* C13: the phases of a tick run in the order update, harvest, replication,
\* master, compaction, each once.  Only the update phase runs sacrifice timers
\* and marks probes dead; only the harvest phase takes from resources; the
\* replication phase changes nothing unless the master is NORMAL; only the
\* master phase changes the master's phase, and it removes no probe; the
\* compaction removes exactly the dead probes, in place, and adds their number
\* to master.sacrificed.  So the probes that die in a tick are counted at the
\* end of that tick, after its master step, and the master step that starts
\* CHARGE finds no dead and no sacrificing probe: the last death was in an
\* earlier tick.
C13_TickPhaseOrder ==
    [][ /\ pc' # pc => pc' = NextPc(pc)
        /\ pc' # pc =>
              CASE pc = "update" ->
                      /\ resources' = resources /\ master' = master
                      /\ Len0(probes') = Len0(probes)
                      /\ \A i \in DOMAIN probes : probes'[i].resources = probes[i].resources
                [] pc = "harvest" ->
                      /\ master' = master
                      /\ Len0(probes') = Len0(probes)
                      /\ \A i \in DOMAIN probes :
                            /\ probes'[i].dead = probes[i].dead
                            /\ probes'[i].sacrificeT = probes[i].sacrificeT
                            /\ probes'[i].resources >= probes[i].resources
                [] pc = "replicate" ->
                      /\ master' = master /\ resources' = resources
                      /\ master.state # "NORMAL" => probes' = probes
                      /\ Len0(probes') >= Len0(probes)
                [] pc = "master" ->
                      /\ resources' = resources \/ hist'.justWarped
                      /\ Len0(probes') = Len0(probes)
                      /\ master'.sacrificed \in {0, master.sacrificed}
                      /\ \A i \in DOMAIN probes :
                            /\ probes'[i].dead = probes[i].dead
                            /\ probes'[i].resources = probes[i].resources
                      /\ (master.state = "BUILD" /\ master'.state = "CHARGE") =>
                            \A i \in DOMAIN probes : ~probes[i].dead /\ ~probes[i].sacrificing
                [] pc = "purge" ->
                      /\ resources' = resources
                      /\ master' = [master EXCEPT !.sacrificed =
                                       master.sacrificed + Len0(probes) - Cardinality(Living)]
                      /\ Len0(probes') = Cardinality(Living)
                      /\ \A i \in Living : probes'[LivingBefore(i)] = probes[i]
                [] OTHER -> FALSE
    ]_vars

\* A tick of BUILD has ended in which the last sacrificing probes died: they
\* are removed and counted, and the master, whose step came before, is still
\* in BUILD.
C13_Witness ==
    /\ pc = "update"
    /\ hist.startState = "BUILD"
    /\ master.state = "BUILD"
    /\ master.toSacrifice = 1
    /\ master.sacrificed = 1
    /\ Len0(probes) = 10
    /\ \A i \in DOMAIN probes : ~probes[i].sacrificing

-----------------------------------------------------------------------------
(* The player *)

\* C14: the collection always holds exactly one player probe, at the index
\* setup gave it (compaction keeps the order); it is neither sacrificing nor
\* dead in any state; and the replication and compaction phases leave it as it
\* is: it pays for no child of the automatic replication, draws no cooldown,
\* and is not removed.
C14_PlayerInvariant ==
    /\ [](/\ Cardinality({ i \in DOMAIN probes : probes[i].isPlayer }) = 1
          /\ probes[0].isPlayer
          /\ ~probes[0].sacrificing
          /\ ~probes[0].dead
          /\ probes[0].waypoint # NullWp => master.state # "NORMAL")
    /\ [][ /\ pc \in {"replicate", "purge"} => probes'[0] = probes[0]
           /\ pc = "master" =>
                 /\ probes'[0].sacrificing = probes[0].sacrificing
                 /\ probes'[0].resources = probes[0].resources
      ]_vars

\* The player has come through a cycle that sacrificed a probe, and after the
\* warp it is in the new system with what it carried.
C14_Witness ==
    /\ pc = "purge"
    /\ hist.justWarped
    /\ master.sacrificed = 1
    /\ hist.rallyPop = 11
    /\ Len0(probes) = 10
    /\ probes[0].isPlayer
    /\ probes[0].resources >= 108000

-----------------------------------------------------------------------------
(* What lets a probe replicate *)

\* The probes that tryAutoReplicate lets replicate: living, not the player,
\* cooldown expired, carrying at least 1.08 times the cost.
AutoEligible ==
    { i \in DOMAIN probes :
        /\ ~probes[i].dead /\ ~probes[i].isPlayer
        /\ probes[i].replCooldown <= 0
        /\ 100 * probes[i].resources >= 108 * replicateCost }

\* C15: the collection grows only in the replication phase of a tick and on
\* the player's key press, and only while the master is NORMAL.  In the
\* replication phase the probes that pay for a child are exactly the living
\* non-player probes whose cooldown has expired and that carry at least 1.08
\* times the cost, and there is one child for each; on a key press the player
\* carries at least the cost.  In a tick that began in RALLY, BUILD or CHARGE
\* the population does not increase.
C15_ReplicationGating ==
    [][ LET n == Len0(probes)
            m == Len0(probes')
            payers == { i \in DOMAIN probes : probes'[i].resources < probes[i].resources }
        IN /\ m > n =>
                 /\ master.state = "NORMAL"
                 /\ n < HARD_PROBE_CAP
                 /\ pc = "replicate" \/ (pc = "update" /\ pc' = "update")
           /\ pc = "replicate" =>
                 /\ payers = (IF master.state = "NORMAL" THEN AutoEligible ELSE {})
                 /\ m - n = Cardinality(payers)
           /\ (pc = "update" /\ pc' = "update" /\ m > n) =>
                 /\ m = n + 1
                 /\ payers = {0}
                 /\ probes[0].resources >= replicateCost
           /\ (pc # "update" /\ hist.startState # "NORMAL") => m <= n
    ]_vars

\* The replication phase of a tick in NORMAL has run: a probe that carried
\* more than 1.08 times the cost has a child and a cooldown, and a probe that
\* carries the cost but not the margin has none.
C15_Witness ==
    /\ pc = "master"
    /\ master.state = "NORMAL"
    /\ Len0(probes) = 5
    /\ \E i \in DOMAIN probes : ~probes[i].isPlayer /\ probes[i].replCooldown > 0
    /\ \E j \in DOMAIN probes :
          /\ ~probes[j].isPlayer
          /\ probes[j].resources = replicateCost
          /\ probes[j].replCooldown = 0

-----------------------------------------------------------------------------
(* Replication requests at the population cap *)

\* The code compares probes.length with HARD_PROBE_CAP and does nothing else
\* with it.  A collection of HARD_PROBE_CAP probes is out of reach of the
\* model, so the requests are followed with the cap as a parameter, down to
\* populations at, one below and further below a cap of CapUnderTest.
CapUnderTest == 4

\* What the probes carry when the requests begin.
CapCarriedSet == {100000, 108000, 216000}

CapPlayerCarriedSet == {0, 100000, 200000}

InitCap ==
    /\ \E layout \in LayoutSet, crowd \in 0..(CapUnderTest - 1),
          carried \in CapCarriedSet, pcarried \in CapPlayerCarriedSet :
          InitFrom(InitWorld(layout, <<0, 0, 0>>, [j \in 0..(crowd - 1) |-> Pt(5, 100)],
                             carried, Pt(WORLD_W \div 2, WORLD_H \div 2), pcarried))
    /\ pc = "request"
    /\ hist = NoHist
    /\ arg = NoArg
    /\ ret = NoArg

\* probes[i].tryAutoReplicate(dt), as the replication loop of simStep calls it
CallTryAutoReplicate ==
    /\ pc = "request"
    /\ \E i \in DOMAIN probes, rnd \in ReplicateRnd :
          LET w1 == tryAutoReplicateCapped(World, i, FIXED_DT, rnd, CapUnderTest)
          IN /\ SetWorld(w1)
             /\ arg' = [op |-> "tryAutoReplicate", i |-> i, length |-> Len0(probes)]
             /\ ret' = [length |-> Len0(w1.probes)]
    /\ UNCHANGED <<simAcc, pc, hist>>

\* keyPressed with key " ", "r" or "R"
CallKeyPressed ==
    /\ pc = "request"
    /\ \E rnd \in ReplicateRnd :
          LET w1 == keyPressedCapped(World, rnd, CapUnderTest)
          IN /\ SetWorld(w1)
             /\ arg' = [op |-> "keyPressed", i |-> 0, length |-> Len0(probes)]
             /\ ret' = [length |-> Len0(w1.probes)]
    /\ UNCHANGED <<simAcc, pc, hist>>

NextCap == CallTryAutoReplicate \/ CallKeyPressed

SpecCap == InitCap /\ [][NextCap]_vars

\* C16: the collection never holds more probes than the cap, and a request
\* made with the collection at the cap changes nothing of the simulation:
\* the collection, what the requesting probe carries and its cooldown are as
\* they were.
C16_HardCap ==
    /\ [](Len0(probes) <= CapUnderTest)
    /\ [][Len0(probes) >= CapUnderTest => UNCHANGED simVars]_vars

\* With the collection at the cap, a probe that could pay with the margin and
\* whose cooldown has expired has asked to replicate, and the player, who
\* could pay too, has asked before it got there.
C16_Witness ==
    /\ pc = "request"
    /\ arg.op = "tryAutoReplicate"
    /\ arg.length = CapUnderTest
    /\ ret.length = CapUnderTest
    /\ Len0(probes) = CapUnderTest
    /\ ~probes[arg.i].isPlayer
    /\ probes[arg.i].replCooldown = 0
    /\ probes[arg.i].resources >= 108000
    /\ probes[0].resources >= replicateCost

-----------------------------------------------------------------------------
(* draw: the fixed-step driver *)

MAX_STEPS_PER_FRAME == 5

\* min(frameDt, 0.25)
FrameDtCap == 250

\* simStep(dt) as one function of the world; the probes stay where they are.
\* rnd: the draws of the update loop (update), of the replication loop (repl)
\* and of masterUpdate (master).
\* The world after each phase is bound as a value (w1 .. w4), so that each
\* phase is computed once.
simStep(w, dt, rnd) ==
    LET mv == [i \in 0..(MaxMobile - 1) |->
                 IF i \in DOMAIN w.probes THEN Pt(w.probes[i].x, w.probes[i].y) ELSE Pt(0, 0)]
    IN CHOOSE out \in
          { purgeSacrificed(w4) :
              w4 \in { masterUpdate(w3, dt, rnd.master) :
                w3 \in { IF w2.master.state = "NORMAL"
                         THEN ReplicateLoop(w2, 0, dt, rnd.repl) ELSE w2 :
                  w2 \in { HarvestLoop(w1, 0, dt) :
                    w1 \in { UpdateLoop(w, 0, dt, mv, rnd.update) } } } } } : TRUE

\* FIXED_DT = 1 / 50 and frameDt = deltaTime / 1000 are the doubles nearest to
\* their values, but sums and differences of such doubles are rounded again:
\* 0.06 - 0.02 is 0.039999999999999994, below the double 0.04, and 0.02 less
\* is below FIXED_DT.  The model lets every rounded result fall below, on or
\* above the double of its millisecond (RoundSet), and keeps the results that
\* doubles give exactly: x + 0, 0 + x, x - FIXED_DT for x about FIXED_DT, and
\* 0.04 - 0.02 (the double 0.04 is twice the double 0.02).
RoundSet == {0 - 1, 0, 1}

\* The roundings to follow: all of them where the frame has a result that is
\* rounded, one where it has none.
RoundingOf(rounded) == IF rounded THEN RoundSet ELSE {0}

\* simAcc += frameDt
AccAdd(acc, frameDt, r) ==
    IF frameDt = 0 THEN acc
    ELSE IF acc = AccZero THEN [ms |-> frameDt, e |-> 0]
    ELSE [ms |-> acc.ms + frameDt, e |-> r]

\* simAcc >= FIXED_DT
AccGe(acc) == acc.ms > FIXED_DT \/ (acc.ms = FIXED_DT /\ acc.e >= 0)

\* simAcc -= FIXED_DT
AccSub(acc, r) ==
    IF acc.ms = FIXED_DT THEN [ms |-> 0, e |-> acc.e]
    ELSE IF acc.ms = 2 * FIXED_DT /\ acc.e = 0 THEN [ms |-> FIXED_DT, e |-> 0]
    ELSE [ms |-> acc.ms - FIXED_DT, e |-> r]

\* while (simAcc >= FIXED_DT && steps < MAX_STEPS_PER_FRAME).  Each
\* subtraction's rounding replaces that of the one before, so r, the rounding
\* of the frame's subtractions, is that of the last one that counts.
RECURSIVE DrawLoop(_, _, _, _, _)
DrawLoop(w, acc, steps, r, rnd) ==
    IF AccGe(acc) /\ steps < MAX_STEPS_PER_FRAME
    THEN CHOOSE out \in
            { DrawLoop(w1, acc1, steps + 1, r, rnd) :
                w1 \in {simStep(w, FIXED_DT, rnd)}, acc1 \in {AccSub(acc, r)} } : TRUE
    ELSE [w |-> w, simAcc |-> acc, steps |-> steps]

\* The frame time draw() adds: deltaTime / 1000, 0 if that is not finite or
\* is negative, at most 0.25.
FrameDt(deltaTime) ==
    IF ~deltaTime.finite \/ deltaTime.ms < 0 THEN 0 ELSE Min2(deltaTime.ms, FrameDtCap)

\* draw() that keeps the time left over when it has run all the steps a frame
\* may run.
draw_KeepsDebt(w, acc, deltaTime, ra, r, rnd) ==
    LET acc1 == AccAdd(acc, FrameDt(deltaTime), ra)
    IN DrawLoop(w, acc1, 0, r, rnd)

\* draw(), not paused, without the rendering.  ra is the rounding of the
\* addition, r that of the subtractions.
draw(w, acc, deltaTime, ra, r, rnd) ==
    CHOOSE out \in
       { IF l.steps = MAX_STEPS_PER_FRAME THEN [l EXCEPT !.simAcc = AccZero] ELSE l :
           l \in { DrawLoop(w, acc1, 0, r, rnd) :
                     acc1 \in {AccAdd(acc, FrameDt(deltaTime), ra)} } } : TRUE

\* deltaTime, in ms: negative, zero, half a tick, whole ticks, the steps a
\* frame may run and more, above the cap, and not finite.
DeltaTimeSet ==
    { [finite |-> TRUE, ms |-> m] : m \in {0 - 5, 0, 10, 20, 60, 100, 130, 400} }
    \cup { [finite |-> FALSE, ms |-> 0] }

\* The draws of one frame's simSteps.
DrawRnd(w) ==
    { [update |-> [radar |-> u, wander |-> wd], repl |-> rr, master |-> m] :
        u \in RadarDrawSet, wd \in WanderDrawSet, rr \in ReplicateRnd,
        m \in { x \in MasterRnd(w) : x.wp = Pt(200, 200) } }

\* setup(), earlier harvests that have left resource 0 six ticks of the
\* player's harvest and resource 1 nothing, and the player at the centre of
\* the world or beside resource 0.
InitDraw ==
    /\ \E layout \in LayoutSet, at \in {Pt(110, 100), Pt(WORLD_W \div 2, WORLD_H \div 2)} :
          InitFrom(InitWorld(layout, <<22360, 25000, 0>>, Empty0, 0, at, 0))
    /\ pc = "frame"
    /\ hist = NoHist
    /\ arg = NoArg
    /\ ret = NoArg

\* One frame.  arg keeps the accumulator after the addition, ret the number
\* of simSteps run.
Draw ==
    /\ pc = "frame"
    /\ \E deltaTime \in DeltaTimeSet, rnd \in DrawRnd(World) :
       \E ra \in RoundingOf(FrameDt(deltaTime) # 0 /\ simAcc # AccZero) :
       \E r \in RoundingOf(AccAdd(simAcc, FrameDt(deltaTime), ra).ms > FIXED_DT) :
       \E w \in {World} :
       \E f \in {draw(w, simAcc, deltaTime, ra, r, rnd)} :
             /\ SetWorld(f.w)
             /\ simAcc' = f.simAcc
             /\ arg' = [op |-> "draw", acc |-> AccAdd(simAcc, FrameDt(deltaTime), ra)]
             /\ ret' = [steps |-> f.steps]
    /\ UNCHANGED <<pc, hist>>

NextDraw == Draw

SpecDraw == InitDraw /\ [][NextDraw]_vars


\* 0 <= acc < FIXED_DT
AccInRange(acc) ==
    \/ acc.ms = 0 /\ acc.e >= 0
    \/ 0 < acc.ms /\ acc.ms < FIXED_DT
    \/ acc.ms = FIXED_DT /\ acc.e < 0

\* floor(acc / FIXED_DT)
AccFloor(acc) ==
    IF acc.ms % FIXED_DT = 0 /\ acc.e < 0 THEN (acc.ms \div FIXED_DT) - 1
    ELSE acc.ms \div FIXED_DT

\* C17, as stated: a frame runs min(MAX_STEPS_PER_FRAME, floor(simAcc /
\* FIXED_DT)) simSteps, simAcc being the accumulator after the frame's time
\* has been added, and leaves the accumulator in [0, FIXED_DT).
C17_DriverRunsFloor ==
    /\ AccInRange(simAcc)
    /\ arg.op = "draw" => ret.steps = Min2(MAX_STEPS_PER_FRAME, AccFloor(arg.acc))

\* C17, amended: a frame adds a time in [0, 0.25] to the accumulator and runs
\* simStep(FIXED_DT) while, subtracting FIXED_DT for each step run, the
\* accumulator stays at or above FIXED_DT, at most MAX_STEPS_PER_FRAME times.
\* With k = the whole ticks in the accumulator's millisecond, that is
\* min(MAX_STEPS_PER_FRAME, k) steps, or one fewer when the accumulator stood
\* at a whole number of ticks and the rounded subtractions have left it just
\* below the last of them.  After the frame the accumulator is in
\* [0, FIXED_DT).  Each step is a simStep(FIXED_DT): the player beside a
\* resource gains harvest * FIXED_DT per step run, as long as the resource
\* lasts.
C17_DriverBounded ==
    /\ [](/\ AccInRange(simAcc)
          /\ arg.op = "draw" =>
                LET k == Min2(MAX_STEPS_PER_FRAME, arg.acc.ms \div FIXED_DT)
                IN /\ ret.steps <= MAX_STEPS_PER_FRAME
                   /\ arg.acc.ms <= FIXED_DT + FrameDtCap
                   /\ \/ ret.steps = k
                      \/ /\ ret.steps = k - 1
                         /\ arg.acc.ms % FIXED_DT = 0
                         /\ simAcc = [ms |-> FIXED_DT, e |-> 0 - 1]
                   /\ ret.steps = MAX_STEPS_PER_FRAME => simAcc = AccZero)
    /\ [][pc = "frame" =>
            probes'[0].resources - probes[0].resources =
               IF probes[0].x = 110
               THEN Min2(resources[0].amt, ret'.steps * probes[0].harvest * FIXED_DT)
               ELSE 0
       ]_vars

\* A frame has come with more time than MAX_STEPS_PER_FRAME steps take: five
\* steps have run, the player has harvested five ticks' worth, and what was
\* left of the accumulator is dropped.
C17_Witness ==
    /\ arg.op = "draw"
    /\ arg.acc.ms = 260
    /\ ret.steps = MAX_STEPS_PER_FRAME
    /\ simAcc = AccZero
    /\ probes[0].resources = 5 * PlayerHarvest * FIXED_DT


\* The milliseconds left in the accumulator when the frame's loop has ended.
AccLeft == arg.acc.ms - ret.steps * FIXED_DT

\* C28: a frame sets the accumulator to 0 only if, after MAX_STEPS_PER_FRAME
\* steps, a whole tick or more is still left in it; every other frame leaves
\* in the accumulator what its loop has left.
C28_DropOnlyWhenBehind ==
    arg.op = "draw" =>
       \/ simAcc.ms = AccLeft
       \/ /\ ret.steps = MAX_STEPS_PER_FRAME
          /\ AccLeft >= FIXED_DT
          /\ simAcc = AccZero


-----------------------------------------------------------------------------
(* The guard of RALLY -> BUILD *)

\* The distance between two coordinates on a circle of the given size.
TorusGap(a, b, size) ==
    LET d == IF a >= b THEN a - b ELSE b - a
    IN Min2(d, size - d)

\* The probes within RALLY_RADIUS of the master's waypoint.
Arrived ==
    Cardinality({i \in DOMAIN probes :
        LET gx == TorusGap(probes[i].x, master.waypoint.x, WORLD_W)
            gy == TorusGap(probes[i].y, master.waypoint.y, WORLD_H)
        IN gx * gx + gy * gy <= RALLY_RADIUS * RALLY_RADIUS})

\* C18: in a tick that finds the master in RALLY, masterUpdate starts BUILD
\* exactly when arrived >= max(1, floor(0.65 * pop)), or the phase timer has
\* reached RALLY_TIMEOUT and arrived >= max(1, floor(0.45 * pop)); pop is the
\* whole population, the player included, and arrived the number of probes
\* within RALLY_RADIUS (wrapped distance) of the waypoint.  A lone probe must
\* itself have arrived, and with nobody arrived BUILD does not start.
C18_RallyGuard ==
    [][(pc = "master" /\ master.state = "RALLY") =>
         LET pop == Len0(probes)
             byFraction == Arrived >= Max2(1, (pop * 65) \div 100)
             byTimeout == /\ master.t + DT >= RALLY_TIMEOUT
                          /\ Arrived >= Max2(1, (pop * 45) \div 100)
         IN /\ master'.state \in {"RALLY", "BUILD"}
            /\ master'.state = "BUILD" <=> (byFraction \/ byTimeout)
            /\ Arrived = 0 => master'.state = "RALLY"
            /\ (pop = 1 /\ Arrived = 1) => master'.state = "BUILD"
    ]_vars

\* BUILD has begun on a population of more than one with exactly as many
\* probes arrived as the rally fraction asks for, the player among them: with
\* the player left out of the count BUILD would not have begun.
C18_Witness ==
    /\ pc = "purge"
    /\ hist.startState = "RALLY"
    /\ master.state = "BUILD"
    /\ Len0(probes) > 1
    /\ probes[0].isPlayer
    /\ TorusGap(probes[0].x, master.waypoint.x, WORLD_W) <= 100
    /\ Arrived >= Max2(1, (Len0(probes) * 65) \div 100)
    /\ Arrived - 1 < Max2(1, (Len0(probes) * 65) \div 100)


-----------------------------------------------------------------------------
(* The harvest transfer *)

RECURSIVE SumCarried(_, _)
SumCarried(ps, i) == IF i >= Len0(ps) THEN 0 ELSE ps[i].resources + SumCarried(ps, i + 1)

\* C19: a harvest moves take = min(r.amt, harvest * dt) from the resource to
\* the probe: what the resources lose is exactly what the probes gain and
\* exactly what systemRemainingTotal loses, each probe gaining at most
\* harvest * dt; a resource that has reached zero is deactivated (neither
\* active nor in the active list), and no other resource is.
C19_HarvestConserves ==
    [][pc = "harvest" =>
         LET taken == SumAmt(resources, 0) - SumAmt(resources', 0)
         IN /\ SumCarried(probes', 0) - SumCarried(probes, 0) = taken
            /\ systemRemainingTotal - systemRemainingTotal' = taken
            /\ \A i \in DOMAIN probes :
                  /\ probes'[i].resources >= probes[i].resources
                  /\ probes'[i].resources - probes[i].resources <= probes[i].harvest * DT
            /\ \A k \in DOMAIN resources :
                  /\ resources'[k].amt <= resources[k].amt
                  /\ resources'[k].active <=> (resources'[k].amt > 0)
                  /\ resources'[k].active <=>
                        (\E a \in DOMAIN resourceActive' : resourceActive'[a] = k)
    ]_vars


-----------------------------------------------------------------------------
(* The sacrificing state *)

\* rand(0.7, 1.25) of beginSacrifice: the longest countdown
MaxSacrificeT == 1250

\* C20: a probe that has entered the sacrificing state leaves it only by
\* becoming dead.  Its countdown starts at no more than 1.25 s and goes down
\* by dt in the update phase of every tick; the probe is marked dead in the
\* update phase that brings the countdown to zero or below, so within
\* ceil(1.25 s / dt) ticks of entry.  The compaction of the same tick removes
\* the dead probes and keeps the others as they are, so that no dead probe is
\* in the collection at a tick boundary; the player never sacrifices.
C20_SacrificeIrreversible ==
    /\ [](/\ pc = "update" => \A i \in DOMAIN probes : ~probes[i].dead
          /\ \A i \in DOMAIN probes :
                /\ probes[i].dead => probes[i].sacrificing
                /\ probes[i].sacrificing =>
                      /\ ~probes[i].isPlayer
                      /\ probes[i].sacrificeT <= MaxSacrificeT
                      /\ probes[i].dead <=> probes[i].sacrificeT <= 0)
    /\ [][CASE pc = "update" /\ pc' = "harvest" ->
                  /\ Len0(probes') = Len0(probes)
                  /\ \A i \in DOMAIN probes :
                        /\ probes'[i].sacrificing = probes[i].sacrificing
                        /\ probes[i].sacrificing =>
                              /\ probes'[i].sacrificeT = probes[i].sacrificeT - DT
                              /\ probes'[i].sacrificeT < probes[i].sacrificeT
                              /\ probes'[i].dead <=> probes'[i].sacrificeT <= 0
            [] pc = "purge" ->
                  /\ Len0(probes') = Cardinality(Living)
                  /\ \A i \in Living : probes'[LivingBefore(i)] = probes[i]
                  /\ \A i \in DOMAIN probes' : ~probes'[i].dead
            [] OTHER ->
                  /\ Len0(probes') >= Len0(probes)
                  /\ \A i \in DOMAIN probes :
                        probes[i].sacrificing =>
                           /\ probes'[i].sacrificing
                           /\ probes'[i].sacrificeT = probes[i].sacrificeT
                           /\ probes'[i].dead = probes[i].dead
      ]_vars

\* A probe that began its sacrifice with the longest countdown has come
\* through one update phase alive and sacrificing, and has been marked dead by
\* the next, beside a probe that is not sacrificing; the compaction has not
\* run yet.
C20_Witness ==
    /\ pc = "harvest"
    /\ master.state = "BUILD"
    /\ \E i \in DOMAIN probes :
          /\ probes[i].dead
          /\ probes[i].sacrificing
          /\ probes[i].sacrificeT = MaxSacrificeT - 2 * DT
    /\ \E k \in DOMAIN probes : ~probes[k].isPlayer /\ ~probes[k].sacrificing


-----------------------------------------------------------------------------
(* From BUILD to the next system *)

\* The ticks a BUILD lasts at most: those that run the longest countdown down,
\* and one more, because the dead are counted after the master's step.
BuildTicks == ((MaxSacrificeT + DT - 1) \div DT) + 1

\* C21: under fair ticking a master in BUILD reaches CHARGE, and a master in
\* CHARGE performs the warp and is NORMAL again, in a bounded number of ticks:
\* the phase timer of a BUILD stays below BuildTicks ticks (the selected probes
\* die by their countdowns), that of a CHARGE below WARP_CHARGE_TIME.
C21_CycleCompletes ==
    /\ [](/\ master.state = "BUILD" => master.t < BuildTicks * DT
          /\ master.state = "CHARGE" => master.t < WARP_CHARGE_TIME)
    /\ (master.state = "BUILD") ~> (master.state = "CHARGE")
    /\ (master.state = "CHARGE") ~> (master.state = "NORMAL" /\ hist.justWarped)

\* The warp has been performed after a BUILD that sacrificed a probe with the
\* longest countdown: the master is NORMAL in the next system.
C21_Witness ==
    /\ hist.justWarped
    /\ master.state = "NORMAL"
    /\ systemIndex = 2
    /\ hist.selected = 1
    /\ master.sacrificed = 1
    /\ Len0(probes) = 10


-----------------------------------------------------------------------------
(* After the warp *)

RECURSIVE SumMaxAmt(_, _)
SumMaxAmt(res, i) == IF i >= Len0(res) THEN 0 ELSE res[i].maxAmt + SumMaxAmt(res, i + 1)

\* The world a warp leaves: the master NORMAL without waypoint and warp
\* structure, a full pool of active resources, and no probe with a target or a
\* waypoint.
WarpPost(w) ==
    /\ w.master.state = "NORMAL"
    /\ w.master.waypoint = NullWp
    /\ w.master.warpMachine = NullMachine
    /\ Len0(w.resources) > 0
    /\ \A k \in DOMAIN w.resources :
          /\ w.resources[k].active
          /\ w.resources[k].amt = w.resources[k].maxAmt
          /\ w.resources[k].amt > 0
          /\ \E a \in DOMAIN w.resourceActive : w.resourceActive[a] = k
    /\ Len0(w.resourceActive) = Len0(w.resources)
    /\ w.systemInitialTotal = SumMaxAmt(w.resources, 0)
    /\ w.systemRemainingTotal = w.systemInitialTotal
    /\ w.systemInitialTotal > 0
    /\ \A i \in DOMAIN w.probes :
          /\ w.probes[i].target = 0 - 1
          /\ w.probes[i].waypoint = NullWp
          /\ ~w.probes[i].dead

\* C22: the masterUpdate that finds the charge duration elapsed leaves the
\* master NORMAL with no shared waypoint and no warp structure, a freshly
\* generated pool in which every resource is active and systemRemainingTotal =
\* systemInitialTotal > 0, and every probe without target and waypoint; the
\* compaction that ends the tick keeps all of that, and the system index has
\* gone up by one.
C22_WarpPostcondition ==
    /\ [](hist.justWarped => WarpPost(World))
    /\ [][(pc = "master" /\ master.state = "CHARGE" /\ master.t + DT >= WARP_CHARGE_TIME)
             => (hist'.justWarped /\ systemIndex' = systemIndex + 1)]_vars
    /\ [][(pc = "purge" /\ hist.justWarped)
             => (WarpPost(World') /\ probes' = probes /\ resources' = resources)]_vars

\* The tick of a warp has ended: a population of several probes is in the
\* second system, whose resources are all active and untouched.
C22_Witness ==
    /\ pc = "update"
    /\ systemIndex = 2
    /\ Len0(probes) >= 3
    /\ WarpPost(World)
    /\ master.t = 0


-----------------------------------------------------------------------------
(* The master's order to the probes *)

\* C23: in a tick that finds the master not NORMAL and with a waypoint, the
\* update of every living probe other than the player leaves that probe with
\* the shared waypoint as its waypoint, and with the target, the radar
\* cooldown and the wander timer it had: none of the target, radar and wander
\* logic has run.  (The steering itself changes the velocity only.)
C23_MasterOverride ==
    [][(pc = "update" /\ pc' = "harvest"
          /\ master.state # "NORMAL" /\ master.waypoint # NullWp) =>
         \A i \in DOMAIN probes :
            (~probes[i].isPlayer /\ ~probes[i].dead) =>
               /\ probes'[i].waypoint = master.waypoint
               /\ probes'[i].target = probes[i].target
               /\ probes'[i].radarCooldown = probes[i].radarCooldown
               /\ probes'[i].wanderT = probes[i].wanderT
    ]_vars

\* An update phase has run under the master's order on a probe that has a
\* target and a radar cooldown that one more radar step would run out: the
\* probe has the shared waypoint and still that target and that cooldown.
C23_Witness ==
    /\ pc = "harvest"
    /\ hist.startState \in {"RALLY", "BUILD", "CHARGE"}
    /\ master.waypoint # NullWp
    /\ \E i \in DOMAIN probes :
          /\ ~probes[i].isPlayer
          /\ ~probes[i].sacrificing
          /\ probes[i].waypoint = master.waypoint
          /\ probes[i].target >= 0
          /\ probes[i].radarCooldown <= DT


-----------------------------------------------------------------------------
(* startBuild on a rally that has gathered *)

\* The waypoint of the rally, close to the left border of the world.
RallyWaypoint == Pt(30, 200)

\* Where the probes have gathered: spot j is to the right of the waypoint for
\* even j and to its left, partly across the border, for odd j, further out as
\* j grows; the distances are all different, or (paired) each left spot is as
\* far as the right spot before it.
RallySpot(j, paired) ==
    IF j % 2 = 0 THEN Pt(RallyWaypoint.x + 12 * ((j \div 2) + 1), RallyWaypoint.y)
    ELSE Pt(wrap01Fast(RallyWaypoint.x - 12 * ((j + 1) \div 2) + (IF paired THEN 0 ELSE 6),
                       WORLD_W),
            RallyWaypoint.y)

\* How many probes other than the player the rally has gathered.
BuildCrowdSet == {10, 20}

\* A RALLY has begun and the probes have come to the spots, in any rotation
\* of the collection's order; the player is on the waypoint itself.
InitBuild ==
    /\ \E layout \in LayoutSet, n \in BuildCrowdSet, s \in 0..19, paired \in BOOLEAN :
          /\ s < n
          /\ InitFrom(startRally(
                InitWorld(layout, <<25000, 25000, 27400>>,
                          [j \in 0..(n - 1) |-> RallySpot((j + s) % n, paired)],
                          12000, RallyWaypoint, 0),
                RallyWaypoint))
    /\ pc = "request"
    /\ hist = NoHist
    /\ arg = NoArg
    /\ ret = NoArg

\* masterUpdate(dt) in RALLY, as simStep calls it
CallMasterUpdate ==
    /\ pc = "request"
    /\ master.state = "RALLY"
    /\ \E rnd \in MasterRnd(World) :
       \E w1 \in {masterUpdate(World, FIXED_DT, rnd)} :
          /\ SetWorld(w1)
          /\ arg' = [op |-> "masterUpdate"]
          /\ ret' = [state |-> w1.master.state]
    /\ UNCHANGED <<simAcc, pc, hist>>

NextBuild == CallMasterUpdate

SpecBuild == InitBuild /\ [][NextBuild]_vars

\* The squared distance on the torus from probe i to the master's waypoint.
WaypointD2(i) ==
    LET gx == TorusGap(probes[i].x, master.waypoint.x, WORLD_W)
        gy == TorusGap(probes[i].y, master.waypoint.y, WORLD_H)
    IN gx * gx + gy * gy

-----------------------------------------------------------------------------
(* Probes whose target has been depleted *)

\* A probe's target is a resource that has been emptied.
StaleIn(w, i) == w.probes[i].target >= 0 /\ w.resources[w.probes[i].target].amt = 0

\* Where the children are: two beside the resource across the border, one
\* between the two resources that share a cell, nearer to the first.
StaleCrowd == [j \in 0..2 |-> IF j = 2 THEN Pt(108, 100) ELSE Pt(5, 100)]

\* What has been taken from the three resources already.
StalePoolSet == { <<0, 0, 0>>, <<25000, 25000, 0>>, <<3000, 25000, 0>>, <<3000, 0, 11000>> }

InitStale ==
    /\ \E layout \in LayoutSet, pool \in StalePoolSet :
          InitFrom(InitWorld(layout, pool, StaleCrowd, 12000, Pt(110, 100), 0))
    /\ pc = "call"
    /\ hist = NoHist
    /\ arg = NoArg
    /\ ret = NoArg

\* probes[i].update(dt), as the update loop of simStep calls it; the probe
\* stays where it is.
CallUpdate ==
    /\ pc = "call"
    /\ \E i \in DOMAIN probes, radar \in RadarDrawSet, wander \in WanderDrawSet :
       \E w1 \in {update(World, i, DT, Pt(probes[i].x, probes[i].y),
                         [radar |-> radar, wander |-> wander])} :
          /\ SetWorld(w1)
          /\ arg' = [op |-> "update", i |-> i, stale |-> StaleIn(World, i)]
          /\ ret' = [target |-> w1.probes[i].target,
                     gain |-> w1.probes[i].resources - probes[i].resources]
    /\ UNCHANGED <<simAcc, pc, hist>>

\* probes[i].harvest(dt), as the harvest loop of simStep calls it
CallHarvest ==
    /\ pc = "call"
    /\ \E i \in DOMAIN probes :
       \E w1 \in {harvest(World, i, DT)} :
          /\ SetWorld(w1)
          /\ arg' = [op |-> "harvest", i |-> i, stale |-> StaleIn(World, i)]
          /\ ret' = [target |-> w1.probes[i].target,
                     gain |-> w1.probes[i].resources - probes[i].resources]
    /\ UNCHANGED <<simAcc, pc, hist>>

NextStale == CallUpdate \/ CallHarvest

SpecStale == InitStale /\ [][NextStale]_vars


\* The resources that are not empty and within touch distance of probe i.
TouchingActive(i) ==
    { k \in DOMAIN resources :
        /\ resources[k].amt > 0
        /\ LET gx == TorusGap(probes[i].x, resources[k].x, WORLD_W)
               gy == TorusGap(probes[i].y, resources[k].y, WORLD_H)
               touch == PROBE_RADIUS + resources[k].radius + TOUCH_PAD
           IN gx * gx + gy * gy <= (touch * touch) \div 10000 }

\* What holds of every update and harvest call: an empty resource stays as it
\* is and nothing is harvested from it, and an update in NORMAL leaves an AI
\* probe with no target or with one that is not empty; an update in NORMAL
\* that finds the probe's target empty drops it and runs the radar and wander
\* logic in the same call: the cooldown runs on, or has run out and the probe
\* has pinged.
StaleBenign ==
    /\ \A k \in DOMAIN resources : resources[k].amt = 0 => resources'[k] = resources[k]
    /\ ret'.gain > 0 => \E k \in DOMAIN resources :
                           resources[k].amt > 0 /\ resources'[k].amt < resources[k].amt
    /\ (arg'.op = "update" /\ master.state = "NORMAL" /\ ~probes[arg'.i].isPlayer) =>
          LET p == probes[arg'.i]
              q == probes'[arg'.i]
          IN /\ q.target >= 0 => resources[q.target].amt > 0
             /\ StaleIn(World, arg'.i) =>
                   /\ q.target # p.target
                   /\ IF p.radarCooldown - DT > 0
                      THEN q.target = 0 - 1 /\ q.radarCooldown = p.radarCooldown - DT
                      ELSE \/ q.target >= 0 /\ q.radarCooldown \in RadarDrawSet
                           \/ q.target = 0 - 1 /\ q.radarCooldown > p.radarCooldown - DT

\* C25, as stated: a probe never harvests from an empty resource and never
\* has one as the target it chases; whenever its update in NORMAL or its
\* harvest step is made with its target empty, the target is set to none and
\* the default behaviour runs in the same call (radar and wander, or the scan
\* of the neighbouring cells for a resource in touch), whoever emptied the
\* resource.
C25_StaleTargetDropped ==
    [][/\ StaleBenign
       /\ (arg'.op = "harvest" /\ StaleIn(World, arg'.i) /\ ~probes[arg'.i].dead) =>
             /\ probes'[arg'.i].target = 0 - 1
             /\ ret'.gain > 0 <=> TouchingActive(arg'.i) # {}
    ]_vars

\* C25, amended: as stated, but the harvest step drops an empty target only
\* while some resource of the system is active.  With no active resource left
\* harvest returns at once: the probe keeps the empty target (it harvests
\* nothing and changes nothing) until its next update in NORMAL or the warp.
C25_StaleTargetDroppedWhileActive ==
    [][/\ StaleBenign
       /\ (arg'.op = "harvest" /\ StaleIn(World, arg'.i) /\ ~probes[arg'.i].dead) =>
             IF Len0(resourceActive) > 0
             THEN /\ probes'[arg'.i].target = 0 - 1
                  /\ ret'.gain > 0 <=> TouchingActive(arg'.i) # {}
             ELSE UNCHANGED simVars
    ]_vars

\* A probe's harvest step has found its target emptied by another probe: it
\* has dropped the target and harvested from another resource in touch.
C25_Witness ==
    /\ arg.op = "harvest"
    /\ arg.stale
    /\ ~probes[arg.i].isPlayer
    /\ ret.target = 0 - 1
    /\ ret.gain > 0


-----------------------------------------------------------------------------
(* radarPing on its own *)

\* Where the pinging probe is: in the first cell near its origin and in its
\* far corner, in the partial last column and row, and inside the world.
RadarProbeSet == {Pt(5, 100), Pt(699, 699), Pt(23999, 23999), Pt(12000, 12000)}

\* Where resources are: beside the border, at exactly RADAR_RANGE and one
\* unit beyond it from the probes above, along an axis across the border and
\* within the world, and diagonally just within range.
RadarResSet ==
    {Pt(23990, 100), Pt(23005, 100), Pt(23004, 100), Pt(1005, 100), Pt(5, 23100),
     Pt(705, 807), Pt(1699, 699), Pt(23699, 699), Pt(999, 23999), Pt(22998, 23999),
     Pt(12600, 12800), Pt(12000, 13001)}

\* A resource out of the range of every probe above.
RadarFarRes == Pt(6000, 18000)

\* Two resources at any of these places and one far away, each still active
\* or emptied.
InitRadar ==
    /\ \E at \in RadarProbeSet, ra \in RadarResSet, rb \in RadarResSet,
          ea \in BOOLEAN, eb \in BOOLEAN, ec \in BOOLEAN :
          InitFrom(InitWorld([k \in 0..2 |->
                                 LET p == IF k = 0 THEN ra ELSE IF k = 1 THEN rb ELSE RadarFarRes
                                 IN ResSpec(0, p.x, p.y, 25000, 1060)],
                             <<IF ea THEN 25000 ELSE 0, IF eb THEN 25000 ELSE 0,
                               IF ec THEN 25000 ELSE 0>>,
                             [j \in 0..0 |-> at], 12000,
                             Pt(WORLD_W \div 2, WORLD_H \div 2), 0))
    /\ pc = "call"
    /\ hist = NoHist
    /\ arg = NoArg
    /\ ret = NoArg

\* probes[i].radarPing(), as aiControl calls it
CallRadarPing ==
    /\ pc = "call"
    /\ arg = NoArg
    /\ \E i \in DOMAIN probes :
          /\ ~probes[i].isPlayer
          /\ arg' = [op |-> "radarPing", i |-> i]
          /\ ret' = [idx |-> radarPing(World, i)]
    /\ UNCHANGED <<simVars, simAcc, pc, hist>>

NextRadar == CallRadarPing

SpecRadar == InitRadar /\ [][NextRadar]_vars

\* The squared distance on the torus from probe i to resource k.
ResourceD2(i, k) ==
    LET gx == TorusGap(probes[i].x, resources[k].x, WORLD_W)
        gy == TorusGap(probes[i].y, resources[k].y, WORLD_H)
    IN gx * gx + gy * gy

\* The active resources within radar range of probe i.
InRadarRange(i) ==
    { k \in DOMAIN resources :
        resources[k].active /\ ResourceD2(i, k) <= RADAR_RANGE * RADAR_RANGE }

\* C26: radarPing returns none exactly when no active resource is within
\* RADAR_RANGE (distance on the torus) of the probe, and otherwise an active
\* resource within range that no other active resource is nearer than: the
\* radar-neighbour cells miss no resource in range.
C26_RadarPingNearest ==
    arg.op = "radarPing" =>
       /\ ret.idx = 0 - 1 <=> InRadarRange(arg.i) = {}
       /\ ret.idx # 0 - 1 =>
             /\ ret.idx \in InRadarRange(arg.i)
             /\ \A k \in InRadarRange(arg.i) :
                   ResourceD2(arg.i, ret.idx) <= ResourceD2(arg.i, k)

\* The probe beside the left border has pinged a resource at exactly
\* RADAR_RANGE across the border, three columns away counting the partial
\* one, while the other resource, one unit further, is out of range.
C26_Witness ==
    /\ arg.op = "radarPing"
    /\ probes[arg.i].x = 5
    /\ ret.idx >= 0
    /\ resources[ret.idx].x = 23005
    /\ ResourceD2(arg.i, ret.idx) = RADAR_RANGE * RADAR_RANGE
    /\ \E k \in DOMAIN resources : resources[k].active /\ resources[k].x = 23004


-----------------------------------------------------------------------------
(* harvest on its own *)

\* Where the harvesting probe is: beside the left border, in the corner of the
\* partial last column and row, in the far corner of the first cell, and at
\* the centre of the world.
TouchProbeSet == {Pt(5, 100), Pt(23995, 23990), Pt(699, 699), Pt(12000, 12000)}

\* Resources around these places: common ones of capacity 25 (touch distance
\* 10 + 10.6 + 6) at 20 units across the border along x and along y, at 26
\* units (touching) and at 27 and 30 (not touching), in the next cell
\* diagonally, at 10 units; rich ones of capacity 400 (radius 8 + 0.62 * 20,
\* touch distance 36.4) at 36 and at 20 units.
TouchResSet ==
    {ResSpec(0, 23985, 100, 25000, 1060), ResSpec(0, 31, 100, 25000, 1060),
     ResSpec(0, 32, 100, 25000, 1060), ResSpec(1, 5, 136, 400000, 2040),
     ResSpec(0, 15, 23990, 25000, 1060), ResSpec(0, 23995, 10, 25000, 1060),
     ResSpec(0, 710, 710, 25000, 1060), ResSpec(1, 12020, 12000, 400000, 2040),
     ResSpec(0, 12010, 12000, 25000, 1060), ResSpec(0, 12000, 11970, 25000, 1060)}

\* Two resources from these and one far away, each full or emptied before,
\* and a probe whose target is none or any of the three.
InitTouch ==
    /\ \E at \in TouchProbeSet, ra \in TouchResSet, rb \in TouchResSet,
          ea \in BOOLEAN, eb \in BOOLEAN, ec \in BOOLEAN, t \in (0 - 1)..2 :
       \E w \in {InitWorld([k \in 0..2 |->
                              IF k = 0 THEN ra ELSE IF k = 1 THEN rb
                              ELSE ResSpec(0, RadarFarRes.x, RadarFarRes.y, 25000, 1060)],
                           <<IF ea THEN ra.maxAmt ELSE 0, IF eb THEN rb.maxAmt ELSE 0,
                             IF ec THEN 25000 ELSE 0>>,
                           [j \in 0..0 |-> at], 12000,
                           Pt(WORLD_W \div 2, WORLD_H \div 2), 0)} :
          InitFrom([w EXCEPT !.probes[1].target = t])
    /\ pc = "call"
    /\ hist = NoHist
    /\ arg = NoArg
    /\ ret = NoArg

NextTouch == CallHarvest

SpecTouch == InitTouch /\ [][NextTouch]_vars

\* The resources whose amount the step changes.
HarvestedInStep == { k \in DOMAIN resources : resources'[k].amt # resources[k].amt }

\* C27: a harvest call of a living probe takes from at most one resource: from
\* the probe's target if that is active and within touch distance (probe
\* radius + resource radius + pad); otherwise from an active resource within
\* touch distance that no other such resource is nearer than; and from none,
\* gaining nothing, if no active resource is within touch distance.
C27_HarvestOneResource ==
    [][(arg'.op = "harvest" /\ ~probes[arg'.i].dead) =>
          LET i == arg'.i
              tgt == probes[i].target
              T == TouchingActive(i)
          IN /\ Cardinality(HarvestedInStep) <= 1
             /\ tgt \in T => HarvestedInStep = {tgt}
             /\ (tgt \notin T /\ T # {}) =>
                   \E k \in T : /\ HarvestedInStep = {k}
                                /\ \A m \in T : ResourceD2(i, k) <= ResourceD2(i, m)
             /\ T = {} => HarvestedInStep = {}
             /\ probes'[i].resources > probes[i].resources <=> HarvestedInStep # {}
             /\ \A j \in DOMAIN probes : j # i => probes'[j] = probes[j]]_vars

\* A probe has harvested from its target, which is not yet empty, although
\* another resource, still full, touches it from nearer.
C27_Witness ==
    /\ arg.op = "harvest"
    /\ ret.gain > 0
    /\ probes[arg.i].target >= 0
    /\ resources[probes[arg.i].target].amt > 0
    /\ resources[probes[arg.i].target].amt < resources[probes[arg.i].target].maxAmt
    /\ \E k \in TouchingActive(arg.i) :
          /\ resources[k].amt = resources[k].maxAmt
          /\ ResourceD2(arg.i, k) < ResourceD2(arg.i, probes[arg.i].target)


-----------------------------------------------------------------------------
(* The master's waypoint and warp machine in each phase *)

\* C29: at every tick boundary master.waypoint is set exactly when the
\* master's state is RALLY, BUILD or CHARGE, master.warpMachine exists
\* exactly when it is BUILD or CHARGE, standing on the waypoint, and the
\* machine is in mode CHARGE exactly when the state is CHARGE; in NORMAL there
\* is neither.
C29_WaypointAndMachine ==
    pc = "update" =>
       /\ master.waypoint # NullWp <=> master.state \in {"RALLY", "BUILD", "CHARGE"}
       /\ master.warpMachine # NullMachine <=> master.state \in {"BUILD", "CHARGE"}
       /\ master.warpMachine.mode = "CHARGE" <=> master.state = "CHARGE"
       /\ master.warpMachine # NullMachine =>
             /\ master.warpMachine.x = master.waypoint.x
             /\ master.warpMachine.y = master.waypoint.y
       /\ master.state = "NORMAL" =>
             master.waypoint = NullWp /\ master.warpMachine = NullMachine

\* A tick begins in CHARGE: the waypoint is set and the warp machine stands
\* on it, charging.
C29_Witness ==
    /\ pc = "update"
    /\ master.state = "CHARGE"
    /\ master.waypoint # NullWp
    /\ master.warpMachine = [x |-> master.waypoint.x, y |-> master.waypoint.y,
                             mode |-> "CHARGE"]


-----------------------------------------------------------------------------
(* activateResource and deactivateResource on their own *)

\* What spawnSystem may draw here: four resources of capacity 25 side by
\* side, or the three of LayoutSet.
ActiveLayoutSet ==
    LayoutSet \cup { [i \in 0..3 |-> ResSpec(0, 100 + 10 * i, 100, 25000, 1060)] }

\* setup(): spawnSystem has activated every resource it made; one child has
\* been made since.
InitActive ==
    /\ \E layout \in ActiveLayoutSet :
       \E w \in {setup(layout, 1000, 1000)} :
          InitFrom(Children(w, 0, [j \in 0..0 |-> Pt(110, 100)], 12000,
                            [radar |-> 1000, wander |-> 1000]))
    /\ pc = "call"
    /\ hist = NoHist
    /\ arg = NoArg
    /\ ret = NoArg

\* probes[i]._harvestFrom(ridx, dt), as harvest calls it for the resource it
\* has found touching; it calls deactivateResource when it has emptied the
\* resource.
CallHarvestFrom ==
    /\ pc = "call"
    /\ \E i \in DOMAIN probes, ridx \in DOMAIN resources :
          /\ SetWorld(_harvestFrom(World, i, ridx, DT))
          /\ arg' = [op |-> "_harvestFrom", i |-> i, idx |-> ridx]
    /\ UNCHANGED <<simAcc, pc, hist, ret>>

\* deactivateResource(idx) for a resource that is empty already.
CallDeactivateResource ==
    /\ pc = "call"
    /\ \E idx \in DOMAIN resources :
          /\ resources[idx].amt = 0
          /\ SetWorld(deactivateResource(World, idx))
          /\ arg' = [op |-> "deactivateResource", idx |-> idx]
    /\ UNCHANGED <<simAcc, pc, hist, ret>>

NextActive == CallHarvestFrom \/ CallDeactivateResource

SpecActive == InitActive /\ [][NextActive]_vars

\* The places of resource k in resourceActive.
ActiveSlotsOf(k) == { i \in DOMAIN resourceActive : resourceActive[i] = k }

\* C30: after the activations of spawnSystem and any deactivations since,
\* resourceActive holds exactly the resources with amt > 0, each once;
\* resources[resourceActive[i]].activeIndex = i for every i; every other
\* resource has active = false and activeIndex = -1.  Deactivating a resource
\* that is inactive already changes nothing.
C30_ActiveListExact ==
    /\ [](/\ \A k \in DOMAIN resources :
                LET r == resources[k]
                IN IF r.amt > 0
                   THEN r.active /\ ActiveSlotsOf(k) = {r.activeIndex}
                   ELSE ~r.active /\ r.activeIndex = 0 - 1 /\ ActiveSlotsOf(k) = {}
          /\ \A i \in DOMAIN resourceActive :
                /\ resourceActive[i] \in DOMAIN resources
                /\ resources[resourceActive[i]].activeIndex = i
          /\ Len0(resourceActive) = Cardinality({ k \in DOMAIN resources : resources[k].amt > 0 }))
    /\ [][arg'.op = "deactivateResource" => UNCHANGED simVars]_vars

\* Resource 0 of four has been emptied and deactivated: resource 3, the last
\* of the list, has taken its place in it.
C30_Witness ==
    /\ arg.op = "_harvestFrom"
    /\ arg.idx = 0
    /\ Len0(resources) = 4
    /\ resources[0].amt = 0
    /\ ~resources[0].active
    /\ Len0(resourceActive) = 3
    /\ resourceActive[0] = 3
    /\ resources[3].activeIndex = 0

=============================================================================
